---- MODULE Spec2Model ----
(***************************************************************************)
(* Model of the object counter of contagem-industrial:                     *)
(* ContadorObjetosIndustrial (contador_objetos.py and its twin             *)
(* src/core/contador.py).  An instance holds a configuration; processar    *)
(* loads an image, runs preprocess -> segment -> morphology -> connected   *)
(* components, filters the components by area and aggregates statistics.   *)
(*                                                                         *)
(* Images are small matrices (sequences of rows).  The OpenCV and NumPy    *)
(* primitives the code calls are modelled by what they compute, in exact   *)
(* integer / rational arithmetic.                                          *)
(***************************************************************************)
EXTENDS Integers, Sequences, FiniteSets, TLC

\* ------------------------------------------------------------------------
\* Bounds of the model
\* ------------------------------------------------------------------------
\* largest area_minima an instance is constructed with
MaxAreaMinima == 3
\* largest morph_iterations an instance is constructed with
MaxIteracoes == 1
\* largest number of runs of one dataset processor
MaxChamadasDataset == 1

\* ------------------------------------------------------------------------
\* Small arithmetic helpers
\* ------------------------------------------------------------------------
Abs(n) == IF n < 0 THEN -n ELSE n

Min2(a, b) == IF a <= b THEN a ELSE b

Max2(a, b) == IF a >= b THEN a ELSE b

MinSet(S) == CHOOSE m \in S : \A n \in S : m <= n

MaxSet(S) == CHOOSE m \in S : \A n \in S : m >= n

RECURSIVE Gcd(_, _)
Gcd(a, b) == IF b = 0 THEN a ELSE Gcd(b, a % b)

\* a rational in lowest terms, den > 0
Frac(n, d) ==
  LET g == Gcd(Abs(n), d)
  IN  IF n = 0 THEN [num |-> 0, den |-> 1] ELSE [num |-> n \div g, den |-> d \div g]

RECURSIVE SomaSeq(_)
SomaSeq(s) == IF s = <<>> THEN 0 ELSE Head(s) + SomaSeq(Tail(s))

\* the same sequence, as an explicit tuple (computed once, not per access)
Tupla(s) == s \o <<>>

\* ------------------------------------------------------------------------
\* Images: img[y][x], rows y = 1..Altura, columns x = 1..Largura.
\* OpenCV coordinates are 0-based: pixel (x-1, y-1).
\* ------------------------------------------------------------------------
Altura(img) == Len(img)

Largura(img) == Len(img[1])

Pixels(img) == (1..Altura(img)) \X (1..Largura(img))

\* a gray matrix filled with one value
Uniforme(h, w, v) == Tupla([y \in 1..h |-> Tupla([x \in 1..w |-> v])])

\* ------------------------------------------------------------------------
\* The files the runs read.  A gray file stores one sample per pixel, a
\* colour file a <<B, G, R>> triple per pixel.
\* ------------------------------------------------------------------------
\* gray file from a picture: 1 is a dark pixel (30), 0 a light one (220)
Desenho(linhas) ==
  [tipo |-> "cinza",
   pixels |-> Tupla([y \in 1..Len(linhas) |->
                 Tupla([x \in 1..Len(linhas[y]) |-> IF linhas[y][x] = 1 THEN 30 ELSE 220])])]

ArquivoUniforme(v) == [tipo |-> "cinza", pixels |-> Uniforme(4, 6, v)]

Disco ==
  [ preto      |-> ArquivoUniforme(0),
    cinza1     |-> ArquivoUniforme(1),
    cinza128   |-> ArquivoUniforme(128),
    branco     |-> ArquivoUniforme(255),
    \* three blobs of areas 1, 2 and 3
    tres       |-> Desenho(<< <<1,0,1,1,0,0,0>>,
                              <<0,0,0,0,0,0,0>>,
                              <<0,0,0,0,1,1,1>>,
                              <<0,0,0,0,0,0,0>> >>),
    \* blobs of areas 2, 1, 2, 4: small ones between large ones
    quatro     |-> Desenho(<< <<1,1,0,1,0,0,0>>,
                              <<0,0,0,0,0,1,1>>,
                              <<1,0,0,0,0,1,1>>,
                              <<1,0,0,0,0,0,0>> >>),
    \* two pixels touching only by a corner, and a 3x3 block
    diagonal   |-> Desenho(<< <<1,0,0,0,0,0,0>>,
                              <<0,1,0,0,1,1,1>>,
                              <<0,0,0,0,1,1,1>>,
                              <<0,0,0,0,1,1,1>> >>),
    \* a large dark blob and a small light background
    bloco      |-> Desenho(<< <<1,1,1,1,1,0>>,
                              <<1,1,1,1,1,0>>,
                              <<1,1,1,1,1,0>>,
                              <<1,1,1,1,1,0>>,
                              <<1,1,1,1,1,0>> >>),
    \* a colour file: a red square on a white sheet
    colorida   |-> [tipo |-> "cor",
                    pixels |-> Tupla([y \in 1..4 |-> Tupla([x \in 1..5 |->
                       IF y \in 2..3 /\ x \in 2..3 THEN <<0, 0, 200>> ELSE <<255, 255, 255>>])])],
    corrompida |-> [tipo |-> "ilegivel"] ]

\* paths a caller may pass: the files above and one that does not exist
Caminhos == DOMAIN Disco \cup {"ausente"}

None == [tipo |-> "None"]

\* cv2.imread(caminho): None for a missing or undecodable file, otherwise a
\* 3-channel BGR image (a gray file is expanded to three equal channels).
\* memoria names the buffer of the array by the call that allocated it;
\* marcas are the drawing calls made on that buffer.
imread(caminho) ==
  IF caminho \notin DOMAIN Disco THEN None
  ELSE LET arq == Disco[caminho]
       IN  IF arq.tipo = "cinza"
             THEN [tipo |-> "bgr",
                   pixels |-> Tupla([y \in 1..Altura(arq.pixels) |->
                                 Tupla([x \in 1..Largura(arq.pixels) |->
                                    <<arq.pixels[y][x], arq.pixels[y][x], arq.pixels[y][x]>>])]),
                   memoria |-> "imread", marcas |-> <<>>]
           ELSE IF arq.tipo = "cor"
             THEN [tipo |-> "bgr", pixels |-> arq.pixels, memoria |-> "imread", marcas |-> <<>>]
           ELSE None

\* ------------------------------------------------------------------------
\* preprocessar_imagem
\* ------------------------------------------------------------------------
\* cv2.cvtColor(.., COLOR_BGR2GRAY) on 8-bit samples: fixed point, 14 bits
BGR2GRAY(px) == (px[1] * 1868 + px[2] * 9617 + px[3] * 4899 + 8192) \div 16384

\* BORDER_REFLECT_101 index into 1..n
RECURSIVE Reflect101(_, _)
Reflect101(i, n) ==
  IF n = 1 THEN 1
  ELSE IF i < 1 THEN Reflect101(2 - i, n)
  ELSE IF i > n THEN Reflect101(2 * n - i, n)
  ELSE i

\* BORDER_REPLICATE index into 1..n
Replicate(i, n) == IF i < 1 THEN 1 ELSE IF i > n THEN n ELSE i

\* the fixed Gaussian taps OpenCV uses for sigma = 0 and small kernels
\* (numerators; the denominator is their sum)
GaussTaps(k) ==
  CASE k = 1 -> <<1>>
    [] k = 3 -> <<1, 2, 1>>
    [] k = 5 -> <<1, 4, 6, 4, 1>>
    [] k = 7 -> <<4, 14, 28, 36, 28, 14, 4>>

\* cv2.GaussianBlur(gray, (kw, kh), 0): separable, reflect-101 border,
\* rounded to nearest
GaussianBlur(gray, ksize) ==
  LET h  == Altura(gray)
      w  == Largura(gray)
      tx == GaussTaps(ksize[1])
      ty == GaussTaps(ksize[2])
      rx == ksize[1] \div 2
      ry == ksize[2] \div 2
      dx == SomaSeq(tx)
      dy == SomaSeq(ty)
      hor == Tupla([y \in 1..h |-> Tupla([x \in 1..w |->
                SomaSeq([i \in 1..Len(tx) |-> tx[i] * gray[y][Reflect101(x + i - 1 - rx, w)]])])])
  IN  Tupla([y \in 1..h |-> Tupla([x \in 1..w |->
         (SomaSeq([j \in 1..Len(ty) |-> ty[j] * hor[Reflect101(y + j - 1 - ry, h)][x]])
            + ((dx * dy) \div 2)) \div (dx * dy)])])

\* the kernel sizes cv2.GaussianBlur accepts with sigma = 0: odd and
\* positive in both dimensions; any other size raises cv2.error
KsizeValido(ksize) == \A d \in 1..2 : ksize[d] > 0 /\ ksize[d] % 2 = 1

preprocessar_imagem(self, imagem) ==
  LET img_gray == Tupla([y \in 1..Altura(imagem.pixels) |->
                     Tupla([x \in 1..Largura(imagem.pixels) |-> BGR2GRAY(imagem.pixels[y][x])])])
  IN  GaussianBlur(img_gray, self.blur_kernel)

\* ------------------------------------------------------------------------
\* 8-connectivity on pixel sets
\* ------------------------------------------------------------------------
\* variant: connectivity=4, only pixels sharing an edge are neighbours
Vizinhos4(p, q) == Abs(p[1] - q[1]) + Abs(p[2] - q[2]) = 1

\* two distinct pixels sharing an edge or a corner
Vizinhos8(p, q) ==
  /\ p # q
  /\ Abs(p[1] - q[1]) <= 1
  /\ Abs(p[2] - q[2]) <= 1

\* the pixels of S joined to the frontier by paths of 8-adjacent pixels of S
RECURSIVE Alcance(_, _, _)
Alcance(frente, vistos, S) ==
  IF frente = {} THEN vistos
  ELSE LET novos == {q \in S \ vistos : \E p \in frente : Vizinhos8(p, q)}
       IN  Alcance(novos, vistos \cup novos, S)

\* ------------------------------------------------------------------------
\* segmentar_imagem
\* ------------------------------------------------------------------------
OTSU == "otsu"
ADAPTIVE == "adaptive"
CANNY == "canny"
MetodoSegmentacao == {OTSU, ADAPTIVE, CANNY}

\* the samples of a gray image, row after row
Amostras(gray) ==
  Tupla([k \in 1..(Altura(gray) * Largura(gray)) |->
           gray[((k - 1) \div Largura(gray)) + 1][((k - 1) % Largura(gray)) + 1]])

\* between-class variance of the split "<= t" / "> t", up to the constant
\* factor 1/N^2, as integer part and remainder over n1*n2:
\*   q1*q2*(mu1-mu2)^2 * N^2 = (s1*n2 - s2*n1)^2 / (n1*n2)
\* n1, s1: count and sum of the samples <= t; n, s: of all samples
SigmaOtsu(n1, s1, n, s) ==
  LET n2 == n - n1
      s2 == s - s1
      a  == Abs(s1 * n2 - s2 * n1)
      pp == n1 * n2
      q  == a \div pp
      r  == a % pp
  IN  IF n1 = 0 \/ n2 = 0
        THEN [skip |-> TRUE, int |-> 0, rem |-> 0, den |-> 1]
        ELSE [skip |-> FALSE,
              int |-> q * q * pp + 2 * q * r + ((r * r) \div pp),
              rem |-> (r * r) % pp,
              den |-> pp]

SigmaMaior(a, b) ==
  \/ a.int > b.int
  \/ a.int = b.int /\ a.rem * b.den > b.rem * a.den

\* the loop of Otsu's method over the candidate thresholds in ascending
\* order: keeps the first candidate with the strictly largest variance
RECURSIVE OtsuLoop(_, _, _, _, _, _)
OtsuLoop(niveis, k, amostras, s, max_sigma, max_val) ==
  IF k > Len(niveis) THEN max_val
  ELSE LET t     == niveis[k]
           ate   == SelectSeq(amostras, LAMBDA v : v <= t)
           sigma == SigmaOtsu(Len(ate), SomaSeq(ate), Len(amostras), s)
       IN  IF ~sigma.skip /\ SigmaMaior(sigma, max_sigma)
             THEN OtsuLoop(niveis, k + 1, amostras, s, sigma, t)
             ELSE OtsuLoop(niveis, k + 1, amostras, s, max_sigma, max_val)

\* ascending sequence of the elements of a set of integers
RECURSIVE EmOrdem(_)
EmOrdem(S) == IF S = {} THEN <<>> ELSE <<MinSet(S)>> \o EmOrdem(S \ {MinSet(S)})

\* the threshold cv2.threshold(.., THRESH_OTSU) selects: the first of the 256
\* candidates with the strictly largest between-class variance, 0 when no
\* candidate splits the histogram.  The variance only changes at grey levels
\* present in the image, so only those can be a strict maximum.
LimiarOtsu(gray) ==
  LET amostras == Amostras(gray)
      niveis   == EmOrdem({amostras[k] : k \in 1..Len(amostras)})
  IN  OtsuLoop(niveis, 1, amostras, SomaSeq(amostras),
               [skip |-> FALSE, int |-> 0, rem |-> 0, den |-> 1], 0)

\* variant: THRESH_TOZERO_INV, the sample itself where src <= thresh
ThresholdToZeroInv(gray, thresh) ==
  Tupla([y \in 1..Altura(gray) |-> Tupla([x \in 1..Largura(gray) |->
     IF gray[y][x] > thresh THEN 0 ELSE gray[y][x]])])

\* variant: foreground only strictly below the threshold
ThresholdAbaixo(gray, thresh) ==
  Tupla([y \in 1..Altura(gray) |-> Tupla([x \in 1..Largura(gray) |->
     IF gray[y][x] < thresh THEN 255 ELSE 0])])

\* cv2.threshold(src, thresh, 255, THRESH_BINARY_INV): 0 where src > thresh
ThresholdBinaryInv(gray, thresh) ==
  Tupla([y \in 1..Altura(gray) |-> Tupla([x \in 1..Largura(gray) |->
     IF gray[y][x] > thresh THEN 0 ELSE 255])])

\* taps of the 11-tap Gaussian (sigma = 2) of cv2.adaptiveThreshold's
\* ADAPTIVE_THRESH_GAUSSIAN_C, exp(-d^2/8) scaled to integers
AdaptiveTaps == <<18, 54, 130, 243, 353, 400, 353, 243, 130, 54, 18>>

\* the Gaussian-weighted neighbourhood mean, replicate border, rounded
MediaLocal(gray) ==
  LET h == Altura(gray)
      w == Largura(gray)
      d == SomaSeq(AdaptiveTaps)
      hor == Tupla([y \in 1..h |-> Tupla([x \in 1..w |->
                SomaSeq([i \in 1..11 |-> AdaptiveTaps[i] * gray[y][Replicate(x + i - 6, w)]])])])
  IN  Tupla([y \in 1..h |-> Tupla([x \in 1..w |->
         (SomaSeq([j \in 1..11 |-> AdaptiveTaps[j] * hor[Replicate(y + j - 6, h)][x]])
            + ((d * d) \div 2)) \div (d * d)])])

\* cv2.adaptiveThreshold(src, 255, GAUSSIAN_C, THRESH_BINARY_INV, 11, 2):
\* 255 where src - mean <= -2
AdaptiveThresholdInv(gray) ==
  LET mean == MediaLocal(gray)
  IN  Tupla([y \in 1..Altura(gray) |-> Tupla([x \in 1..Largura(gray) |->
         IF gray[y][x] - mean[y][x] <= -2 THEN 255 ELSE 0])])

\* cv2.Canny(src, 50, 150): Sobel 3x3 gradients (replicate border), L1
\* magnitude, non-maximum suppression, hysteresis
Canny(gray, low, high) ==
  LET h == Altura(gray)
      w == Largura(gray)
      g(y, x) == gray[Replicate(y, h)][Replicate(x, w)]
      dx == Tupla([y \in 1..h |-> Tupla([x \in 1..w |->
               (g(y-1, x+1) + 2 * g(y, x+1) + g(y+1, x+1))
             - (g(y-1, x-1) + 2 * g(y, x-1) + g(y+1, x-1))])])
      dy == Tupla([y \in 1..h |-> Tupla([x \in 1..w |->
               (g(y+1, x-1) + 2 * g(y+1, x) + g(y+1, x+1))
             - (g(y-1, x-1) + 2 * g(y-1, x) + g(y-1, x+1))])])
      mag(y, x) == IF y \in 1..h /\ x \in 1..w THEN Abs(dx[y][x]) + Abs(dy[y][x]) ELSE 0
      maximo(y, x) ==
        LET m     == mag(y, x)
            ax    == Abs(dx[y][x])
            ay    == Abs(dy[y][x]) * 32768
            tg22x == ax * 13573
            tg67x == tg22x + ax * 65536
            s     == IF (dx[y][x] < 0) # (dy[y][x] < 0) THEN -1 ELSE 1
        IN  IF ay < tg22x THEN m > mag(y, x-1) /\ m >= mag(y, x+1)
            ELSE IF ay > tg67x THEN m > mag(y-1, x) /\ m >= mag(y+1, x)
            ELSE m > mag(y-1, x-s) /\ m > mag(y+1, x+s)
      candidatos == {p \in Pixels(gray) : mag(p[1], p[2]) > low /\ maximo(p[1], p[2])}
      fortes     == {p \in candidatos : mag(p[1], p[2]) > high}
      bordas     == Alcance(fortes, fortes, candidatos)
  IN  Tupla([y \in 1..h |-> Tupla([x \in 1..w |-> IF <<y, x>> \in bordas THEN 255 ELSE 0])])

\* one pass of cv2.erode / cv2.dilate with a k x k all-ones kernel anchored
\* at its centre (k div 2); pixels outside the image never limit an erosion
\* and never feed a dilation
Janela(img, y, x, k) ==
  {img[yy][xx] :
     yy \in Max2(1, y - (k \div 2))..Min2(Altura(img), y - (k \div 2) + k - 1),
     xx \in Max2(1, x - (k \div 2))..Min2(Largura(img), x - (k \div 2) + k - 1)}

Erode1(img, k) ==
  Tupla([y \in 1..Altura(img) |-> Tupla([x \in 1..Largura(img) |-> MinSet(Janela(img, y, x, k))])])

Dilate1(img, k) ==
  Tupla([y \in 1..Altura(img) |-> Tupla([x \in 1..Largura(img) |-> MaxSet(Janela(img, y, x, k))])])

\* variant: the erosion runs at least once, whatever the iteration count
RECURSIVE ErodeAoMenosUma(_, _, _)
ErodeAoMenosUma(img, k, n) ==
  IF n <= 1 THEN Erode1(img, k) ELSE ErodeAoMenosUma(Erode1(img, k), k, n - 1)

RECURSIVE Erode(_, _, _)
Erode(img, k, n) == IF n = 0 THEN img ELSE Erode(Erode1(img, k), k, n - 1)

RECURSIVE Dilate(_, _, _)
Dilate(img, k, n) == IF n = 0 THEN img ELSE Dilate(Dilate1(img, k), k, n - 1)

segmentar_imagem(self, imagem) ==
  CASE self.metodo_segmentacao = OTSU ->
         ThresholdBinaryInv(imagem, LimiarOtsu(imagem))
    [] self.metodo_segmentacao = ADAPTIVE ->
         AdaptiveThresholdInv(imagem)
    [] self.metodo_segmentacao = CANNY ->
         Dilate(Canny(imagem, 50, 150), self.morph_kernel, 1)

\* ------------------------------------------------------------------------
\* aplicar_morfologia
\* ------------------------------------------------------------------------
\* variant: n openings in a row, each one erosion followed by one dilation
RECURSIVE AbrirVezes(_, _, _)
AbrirVezes(img, k, n) ==
  IF n = 0 THEN img ELSE AbrirVezes(Dilate1(Erode1(img, k), k), k, n - 1)

\* n closings in a row, each one dilation followed by one erosion
RECURSIVE FecharVezes(_, _, _)
FecharVezes(img, k, n) ==
  IF n = 0 THEN img ELSE FecharVezes(Erode1(Dilate1(img, k), k), k, n - 1)

\* cv2.morphologyEx(MORPH_OPEN, iterations = n): n erosions, then n dilations
MorphOpen(img, k, n) == Dilate(Erode(img, k, n), k, n)

\* cv2.morphologyEx(MORPH_CLOSE, iterations = n): n dilations, then n erosions
MorphClose(img, k, n) == Erode(Dilate(img, k, n), k, n)

aplicar_morfologia(self, imagem_binaria) ==
  MorphClose(MorphOpen(imagem_binaria, self.morph_kernel, self.morph_iterations),
             self.morph_kernel, self.morph_iterations)

\* ------------------------------------------------------------------------
\* contar_componentes
\* ------------------------------------------------------------------------
RECURSIVE SomaCoord(_, _)
SomaCoord(S, k) ==
  IF S = {} THEN 0
  ELSE LET p == CHOOSE p \in S : TRUE IN (p[k] - 1) + SomaCoord(S \ {p}, k)

\* the maximal 8-connected regions of a pixel set
RECURSIVE Regioes(_)
Regioes(S) ==
  IF S = {} THEN {}
  ELSE LET p == CHOOSE p \in S : TRUE
           r == Alcance({p}, {p}, S)
       IN  {r} \cup Regioes(S \ r)

\* position of a region's first 2x2 block in the block-wise raster scan of
\* the labelling: regions are numbered in the order the scan meets them
OrdemVarredura(r, w) ==
  MinSet({((p[1] - 1) \div 2) * ((w + 1) \div 2) + ((p[2] - 1) \div 2) : p \in r})

\* (INT_MIN - INT_MAX + 1) in 32-bit wrap-around arithmetic: add 2^32 in two
\* halves so that no intermediate value leaves the 32-bit range
ExtensaoVazia ==
  (((((-2147483647 - 1) + 2147483647) + 1) - 2147483647) + 2147483647) + 1 + 1

\* row of cv2's stats (CC_STAT_LEFT, TOP, WIDTH, HEIGHT, AREA) and centroid
EstatisticaRegiao(r) ==
  LET xs == {p[2] - 1 : p \in r}
      ys == {p[1] - 1 : p \in r}
  IN  IF r = {}
        \* an empty label keeps the initial extremes; width and height wrap
        \* around in 32 bits: (-2^31) - (2^31 - 1) + 1 = 2 (mod 2^32)
        THEN [stat |-> [x |-> 2147483647, y |-> 2147483647,
                        w |-> ExtensaoVazia, h |-> ExtensaoVazia,
                        area |-> 0],
              centroid |-> <<[num |-> 0, den |-> 0], [num |-> 0, den |-> 0]>>]
        ELSE [stat |-> [x |-> MinSet(xs), y |-> MinSet(ys),
                        w |-> MaxSet(xs) - MinSet(xs) + 1,
                        h |-> MaxSet(ys) - MinSet(ys) + 1,
                        area |-> Cardinality(r)],
              centroid |-> <<Frac(SomaCoord(r, 2), Cardinality(r)),
                             Frac(SomaCoord(r, 1), Cardinality(r))>>]

\* cv2.connectedComponentsWithStats(img, connectivity=8): label 0 is the
\* background (the zero pixels), labels 1..num_labels-1 the regions
contar_componentes(imagem_binaria) ==
  LET w       == Largura(imagem_binaria)
      frente  == {p \in Pixels(imagem_binaria) : imagem_binaria[p[1]][p[2]] # 0}
      fundo   == Pixels(imagem_binaria) \ frente
      regs    == Regioes(frente)
      n       == Cardinality(regs)
      \* the region with label i >= 1
      regiao  == Tupla([i \in 1..n |->
                    CHOOSE r \in regs :
                      Cardinality({q \in regs : OrdemVarredura(q, w) < OrdemVarredura(r, w)}) = i - 1])
      \* est[i + 1] describes label i
      est     == Tupla([k \in 1..(n + 1) |->
                    EstatisticaRegiao(IF k = 1 THEN fundo ELSE regiao[k - 1])])
  IN  [num_labels |-> n + 1,
       labels     |-> Tupla([y \in 1..Altura(imagem_binaria) |-> Tupla([x \in 1..w |->
                        IF <<y, x>> \in fundo THEN 0
                        ELSE CHOOSE i \in 1..n : <<y, x>> \in regiao[i]])]),
       stats      |-> [i \in 0..n |-> est[i + 1].stat],
       centroids  |-> [i \in 0..n |-> est[i + 1].centroid]]

\* ------------------------------------------------------------------------
\* processar
\* ------------------------------------------------------------------------
\* the two copies of the class in the repository
Modulos == {"contador_objetos", "src.core.contador"}

\* a Python / NumPy number: the rational num/den, or its square root
Num(tipo, f) == [tipo |-> tipo, num |-> f.num, den |-> f.den, raiz |-> FALSE]

Raiz(tipo, f) == [tipo |-> tipo, num |-> f.num, den |-> f.den, raiz |-> TRUE]

Inteiro(n) == Num("int", Frac(n, 1))

\* variant: the loop starts at the background label, range(0, num_labels)
PrimeiroRotuloFundo == 1 - 1

\* first index of the loop over the labels: range(1, num_labels)
PrimeiroRotulo == 1

\* variant: a component of exactly area_minima pixels is kept
RetidoNaoEstrito(self, area) == area >= self.area_minima

\* variant: the comparison is the wrong way round
RetidoInvertido(self, area) == area < self.area_minima

\* the area test of the loop
Retido(self, area) == area > self.area_minima

\* variant: the raw label is stored as the id
IdObjetoRotulo(contagem_final, i) == i

\* the 'id' stored with an object found at raw label i
IdObjeto(contagem_final, i) == contagem_final

\* the loop over the labels: acc carries contagem_final, objetos_detectados
\* and img_resultado; visitados / retidos record the raw labels the loop
\* visited and kept
RECURSIVE FiltrarObjetos(_, _, _, _)
FiltrarObjetos(self, cc, i, acc) ==
  IF i >= cc.num_labels THEN acc
  ELSE LET st == cc.stats[i]
           visto == [acc EXCEPT !.visitados = Append(@, i)]
       IN  IF Retido(self, st.area)
             THEN LET n == acc.contagem_final + 1
                  IN  FiltrarObjetos(self, cc, i + 1,
                        [visto EXCEPT
                           !.contagem_final = n,
                           !.img_resultado.marcas = @ \o
                              << [op |-> "rectangle", pt1 |-> <<st.x, st.y>>,
                                  pt2 |-> <<st.x + st.w, st.y + st.h>>,
                                  cor |-> <<0, 255, 0>>, espessura |-> 2],
                                 [op |-> "putText", texto |-> ToString(n),
                                  org |-> <<st.x, st.y - 5>>,
                                  cor |-> <<0, 0, 255>>, espessura |-> 2] >>,
                           !.objetos_detectados = Append(@,
                              [id |-> IdObjeto(n, i),
                               x |-> st.x, y |-> st.y,
                               width |-> st.w, height |-> st.h,
                               area |-> st.area,
                               centroid |-> cc.centroids[i]]),
                           !.retidos = Append(@, i)])
             ELSE FiltrarObjetos(self, cc, i + 1, visto)

\* ascending copy of a sequence of integers
RECURSIVE Ordenada(_)
Ordenada(s) ==
  IF s = <<>> THEN <<>>
  ELSE LET k == CHOOSE k \in 1..Len(s) : \A j \in 1..Len(s) : s[k] <= s[j]
       IN  <<s[k]>> \o Ordenada([j \in 1..(Len(s) - 1) |-> IF j < k THEN s[j] ELSE s[j + 1]])

\* np.mean
Media(areas) == Frac(SomaSeq(areas), Len(areas))

\* variant: the lower middle value for an even count, no interpolation
MedianaInferior(areas) ==
  LET o == Ordenada(areas)
      n == Len(o)
  IN  Frac(o[(n + 1) \div 2], 1)

\* np.median: the middle value, or the mean of the two middle values
Mediana(areas) ==
  LET o == Ordenada(areas)
      n == Len(o)
  IN  IF n % 2 = 1 THEN Frac(o[(n + 1) \div 2], 1)
      ELSE Frac(o[n \div 2] + o[(n \div 2) + 1], 2)

\* np.std squared: the mean of the squared deviations from the mean
\*   sum((a - S/N)^2) / N = sum((a*N - S)^2) / N^3
Variancia(areas) ==
  LET n == Len(areas)
      t == SomaSeq(areas)
  IN  Frac(SomaSeq([k \in 1..n |-> (areas[k] * n - t) * (areas[k] * n - t)]), n * n * n)

MinSeq(areas) == MinSet({areas[k] : k \in 1..Len(areas)})

MaxSeq(areas) == MaxSet({areas[k] : k \in 1..Len(areas)})

\* variant: no guard for the empty list, NumPy answers nan (0/0 here)
EstatisticasSemGuarda(self, areas) ==
  LET raiz  == self.modulo = "contador_objetos"
      tf    == IF raiz THEN "numpy.float64" ELSE "float"
      ti    == IF raiz THEN "numpy.int64" ELSE "int"
      nan   == [num |-> 0, den |-> 0]
  IN  [area_media    |-> IF areas # <<>> THEN Num(tf, Media(areas)) ELSE Num(tf, nan),
       area_mediana  |-> IF areas # <<>> THEN Num(tf, Mediana(areas)) ELSE Num(tf, nan),
       area_min      |-> IF areas # <<>> THEN Num(ti, Frac(MinSeq(areas), 1)) ELSE Num(ti, nan),
       area_max      |-> IF areas # <<>> THEN Num(ti, Frac(MaxSeq(areas), 1)) ELSE Num(ti, nan),
       desvio_padrao |-> IF areas # <<>> THEN Raiz(tf, Variancia(areas)) ELSE Num(tf, nan)]

\* variant: src/core/contador.py converts the mean with int(), which
\* truncates, where contador_objetos.py keeps the NumPy value
EstatisticasMediaTruncada(self, areas) ==
  LET raiz  == self.modulo = "contador_objetos"
      tf    == IF raiz THEN "numpy.float64" ELSE "float"
      ti    == IF raiz THEN "numpy.int64" ELSE "int"
      zf    == IF raiz THEN "int" ELSE "float"
      zero  == [num |-> 0, den |-> 1]
  IN  [area_media    |-> IF areas = <<>> THEN Num(zf, zero)
                         ELSE IF raiz THEN Num(tf, Media(areas))
                         ELSE Num("int", Frac(Media(areas).num \div Media(areas).den, 1)),
       area_mediana  |-> IF areas # <<>> THEN Num(tf, Mediana(areas)) ELSE Num(zf, zero),
       area_min      |-> IF areas # <<>> THEN Num(ti, Frac(MinSeq(areas), 1)) ELSE Num("int", zero),
       area_max      |-> IF areas # <<>> THEN Num(ti, Frac(MaxSeq(areas), 1)) ELSE Num("int", zero),
       desvio_padrao |-> IF areas # <<>> THEN Raiz(tf, Variancia(areas)) ELSE Num(zf, zero)]

\* the five area entries of the estatisticas dictionary; contador_objetos.py
\* stores the NumPy scalars, src/core/contador.py converts them with float()
\* and int(); an empty list gives the literal zeros
EstatisticasDeAreas(self, areas) ==
  LET raiz  == self.modulo = "contador_objetos"
      tf    == IF raiz THEN "numpy.float64" ELSE "float"
      ti    == IF raiz THEN "numpy.int64" ELSE "int"
      zf    == IF raiz THEN "int" ELSE "float"
      zero  == [num |-> 0, den |-> 1]
  IN  [area_media    |-> IF areas # <<>> THEN Num(tf, Media(areas)) ELSE Num(zf, zero),
       area_mediana  |-> IF areas # <<>> THEN Num(tf, Mediana(areas)) ELSE Num(zf, zero),
       area_min      |-> IF areas # <<>> THEN Num(ti, Frac(MinSeq(areas), 1)) ELSE Num("int", zero),
       area_max      |-> IF areas # <<>> THEN Num(ti, Frac(MaxSeq(areas), 1)) ELSE Num("int", zero),
       desvio_padrao |-> IF areas # <<>> THEN Raiz(tf, Variancia(areas)) ELSE Num(zf, zero)]

\* variant: the background label is counted in the total
TotalComFundo(contagem_final) == Inteiro(contagem_final + 1)

\* estatisticas['total']
TotalEstatisticas(contagem_final) == Inteiro(contagem_final)

\* the estatisticas dictionary
Estatisticas(self, objetos_detectados, contagem_final) ==
  LET areas == [k \in 1..Len(objetos_detectados) |-> objetos_detectados[k].area]
      e     == EstatisticasDeAreas(self, areas)
  IN  [total         |-> TotalEstatisticas(contagem_final),
       area_media    |-> e.area_media,
       area_mediana  |-> e.area_mediana,
       area_min      |-> e.area_min,
       area_max      |-> e.area_max,
       desvio_padrao |-> e.desvio_padrao]

\* locals of a call that returned before any stage ran
SemEtapas ==
  [etapas |-> <<>>, img_morph |-> None, num_labels |-> 0,
   stats |-> <<>>, centroids |-> <<>>, visitados |-> <<>>, retidos |-> <<>>]

\* variant: an empty result instead of None
FalhaComoVazio ==
  [retorno |->
     [tipo |-> "ResultadoContagem", total_objetos |-> 0,
      imagem_original |-> None, imagem_binaria |-> None, imagem_resultado |-> None,
      objetos_detectados |-> <<>>,
      estatisticas |-> [total |-> Inteiro(0)]],
   locais |-> SemEtapas]

\* the early return of processar: "return None", no stage has run
FalhaDeCarga == [retorno |-> None, locais |-> SemEtapas]

\* variant: img_resultado is another name of the loaded array, not a copy
SemCopia(img) == img

\* ndarray.copy(): the same content in a buffer of its own
Copia(img) == [img EXCEPT !.memoria = "copy"]

\* an array as it reads after the calls that drew on desenhada: drawing is
\* in place, so an array in the same buffer shows the same marks
AposDesenho(img, desenhada) ==
  IF img.memoria = desenhada.memoria THEN [img EXCEPT !.marcas = desenhada.marcas] ELSE img

\* cv2.GaussianBlur raised inside preprocessar_imagem: nothing catches the
\* exception, it leaves processar after the image was loaded
ErroNoPreprocessamento ==
  [retorno |-> [tipo |-> "cv2.error"],
   locais |-> [SemEtapas EXCEPT !.etapas = <<"preprocessar_imagem">>]]

\* "x = e" followed by the rest of the function body G, with e computed once
Seja(e, G(_)) == CHOOSE y \in {G(x) : x \in {e}} : TRUE

\* variant: the cleaned image is returned as imagem_binaria
ImagemLimpaDevolvida(img_binaria, img_morph) == img_morph

\* imagem_binaria=img_binaria in the return statement: the output of
\* segmentar_imagem, not the image the components were counted on
ImagemBinariaDevolvida(img_binaria, img_morph) == img_binaria

\* the dictionary processar returns and the locals of the call
Devolver(self, img_original, img_binaria, img_morph, cc, fim) ==
  [retorno |->
     [tipo |-> "ResultadoContagem",
      total_objetos      |-> fim.contagem_final,
      imagem_original    |-> AposDesenho(img_original, fim.img_resultado),
      imagem_binaria     |-> ImagemBinariaDevolvida(img_binaria, img_morph),
      imagem_resultado   |-> fim.img_resultado,
      objetos_detectados |-> fim.objetos_detectados,
      estatisticas       |->
        Estatisticas(self, fim.objetos_detectados, fim.contagem_final)],
   locais |->
     [etapas |-> <<"preprocessar_imagem", "segmentar_imagem",
                   "aplicar_morfologia", "contar_componentes", "filtrar">>,
      img_morph |-> img_morph, num_labels |-> cc.num_labels,
      stats |-> cc.stats, centroids |-> cc.centroids,
      visitados |-> fim.visitados, retidos |-> fim.retidos]]

\* processar(caminho_imagem) of an instance self: its return value and the
\* locals of the call
processar(self, caminho_imagem) ==
  Seja(imread(caminho_imagem), LAMBDA img_original :
    IF img_original = None
      THEN FalhaDeCarga
      ELSE IF ~KsizeValido(self.blur_kernel)
      THEN ErroNoPreprocessamento
      ELSE
        Seja(preprocessar_imagem(self, img_original), LAMBDA img_preprocessada :
        Seja(segmentar_imagem(self, img_preprocessada), LAMBDA img_binaria :
        Seja(aplicar_morfologia(self, img_binaria), LAMBDA img_morph :
        Seja(contar_componentes(img_morph), LAMBDA cc :
        Seja(FiltrarObjetos(self, cc, PrimeiroRotulo,
               [contagem_final |-> 0, objetos_detectados |-> <<>>,
                img_resultado |-> Copia(img_original),
                visitados |-> <<>>, retidos |-> <<>>]), LAMBDA fim :
          Devolver(self, img_original, img_binaria, img_morph, cc, fim)))))))

\* ------------------------------------------------------------------------
\* State: one counter instance and the calls made on it
\* ------------------------------------------------------------------------
VARIABLES
  contador,        \* the instance: its attributes, set by __init__
  caminho_imagem,  \* argument of the latest processar call
  retorno,         \* what the latest processar call returned
  locais,          \* locals of the latest processar call
  primeira,        \* the first call made on the instance and what it returned
  lote,            \* a batch or dataset processor: self.resultados, the latest
                   \* json.dump argument and what the handler returned
  etapa,           \* the latest call of one stage method: its input and output
  execucoes,       \* the processar runs in progress, each with its position
                   \* and its local variables
  programa         \* a run of main: its arguments, its position, the output
                   \* directory and the file operations made so far

vars == <<contador, caminho_imagem, retorno, locais, primeira, lote, etapa, execucoes,
          programa>>

NaoChamado == [tipo |-> "nao chamado"]

\* the configurations instances are constructed with
Configuracoes ==
  [modulo              : Modulos,
   area_minima         : 0..MaxAreaMinima,
   blur_kernel         : {<<1, 1>>, <<5, 5>>},
   morph_kernel        : {1, 3},
   morph_iterations    : 0..MaxIteracoes,
   metodo_segmentacao  : MetodoSegmentacao]

\* __init__: the attributes are the arguments (morph_kernel is the all-ones
\* square of side morph_kernel_size, kept here by its side)
Init ==
  /\ contador \in Configuracoes
  /\ caminho_imagem = ""
  /\ retorno = NaoChamado
  /\ locais = SemEtapas
  /\ primeira = NaoChamado
  /\ lote = NaoChamado
  /\ etapa = NaoChamado
  /\ execucoes = NaoChamado
  /\ programa = NaoChamado

\* variant: the instance keeps the first result it computed and returns it
\* from every later call
ChamadaComCache(c) ==
  \E r \in {processar(contador, c)} :
      /\ caminho_imagem' = c
      /\ retorno' = IF retorno.tipo = "ResultadoContagem" THEN retorno ELSE r.retorno
      /\ locais' = r.locais
      /\ UNCHANGED contador

\* the effect of a call contador.processar(c) on the instance and its caller
Chamada(c) ==
  \E r \in {processar(contador, c)} :
      /\ caminho_imagem' = c
      /\ retorno' = r.retorno
      /\ locais' = r.locais
      /\ UNCHANGED contador

\* a call contador.processar(c)
Processar(c) ==
  /\ Chamada(c)
  /\ UNCHANGED <<primeira, lote, etapa, execucoes, programa>>

Next == \E c \in Caminhos : Processar(c)

Spec == Init /\ [][Next]_vars

\* ------------------------------------------------------------------------
\* The same calls, with the caller keeping the result of the first call to
\* compare later calls with.  Instances with the extreme area thresholds and
\* either no smoothing and a 1x1 structuring element or the default 5x5
\* smoothing and 3x3 structuring element.
\* ------------------------------------------------------------------------
ConfiguracoesHistorico ==
  {c \in Configuracoes :
     /\ c.area_minima \in {0, MaxAreaMinima}
     /\ c.morph_iterations = MaxIteracoes
     /\ <<c.blur_kernel, c.morph_kernel>> \in {<< <<1, 1>>, 1 >>, << <<5, 5>>, 3 >>}}

InitHistorico ==
  /\ contador \in ConfiguracoesHistorico
  /\ caminho_imagem = ""
  /\ retorno = NaoChamado
  /\ locais = SemEtapas
  /\ primeira = NaoChamado
  /\ lote = NaoChamado
  /\ etapa = NaoChamado
  /\ execucoes = NaoChamado
  /\ programa = NaoChamado

ProcessarRegistrando(c) ==
  /\ Chamada(c)
  /\ primeira' = IF primeira = NaoChamado
                   THEN [caminho |-> c, retorno |-> retorno', outras |-> FALSE]
                   ELSE [primeira EXCEPT !.outras = @ \/ c # primeira.caminho]
  /\ UNCHANGED <<lote, etapa, execucoes, programa>>

NextHistorico == \E c \in Caminhos : ProcessarRegistrando(c)

SpecHistorico == InitHistorico /\ [][NextHistorico]_vars

\* ------------------------------------------------------------------------
\* Properties
\* ------------------------------------------------------------------------
\* the latest call returned a ResultadoContagem
EhResultado == retorno.tipo = "ResultadoContagem"

\* the raw labels of the latest call other than the background
Rotulos == 1..(locais.num_labels - 1)

\* the raw labels whose area exceeds the instance's threshold
Aprovados == {i \in Rotulos : locais.stats[i].area > contador.area_minima}

\* the entry of objetos_detectados at position k describes raw label i
Descreve(k, i) ==
  /\ locais.retidos[k] = i
  /\ retorno.objetos_detectados[k].x = locais.stats[i].x
  /\ retorno.objetos_detectados[k].y = locais.stats[i].y
  /\ retorno.objetos_detectados[k].width = locais.stats[i].w
  /\ retorno.objetos_detectados[k].height = locais.stats[i].h
  /\ retorno.objetos_detectados[k].area = locais.stats[i].area
  /\ retorno.objetos_detectados[k].centroid = locais.centroids[i]

Posicoes == 1..Len(retorno.objetos_detectados)

\* a statistic whose value is exactly zero
Zero(v) == v.num = 0 /\ v.den = 1 /\ ~v.raiz

C2_IdsSequenciais ==
  EhResultado =>
    /\ Len(retorno.objetos_detectados) = retorno.total_objetos
    /\ \A k \in Posicoes : retorno.objetos_detectados[k].id = k
    /\ \A k \in Posicoes :
         /\ locais.retidos[k] \in Aprovados
         /\ Descreve(k, locais.retidos[k])
         /\ Cardinality({j \in Aprovados : j <= locais.retidos[k]})
              = retorno.objetos_detectados[k].id

\* a dropped label lies between two retained ones
C2_Witness ==
  /\ EhResultado
  /\ \E k \in Posicoes : /\ k + 1 \in Posicoes
                         /\ locais.retidos[k + 1] > locais.retidos[k] + 1
                         /\ retorno.objetos_detectados[k + 1].id = k + 1

\* C3: total_objetos equals the number of entries of objetos_detectados and
\* equals estatisticas['total'].
C3_TotalCoerente ==
  EhResultado =>
    /\ retorno.total_objetos = Len(retorno.objetos_detectados)
    /\ retorno.estatisticas.total.num = retorno.total_objetos
    /\ retorno.estatisticas.total.den = 1
    /\ ~retorno.estatisticas.total.raiz

\* a result with several objects, some components having been dropped
C3_Witness ==
  /\ EhResultado
  /\ retorno.total_objetos >= 2
  /\ retorno.total_objetos < locais.num_labels - 1

\* C4: when no component survives the area filter, processar still returns a
\* result, with total_objetos = 0, no objects, and area_media, area_mediana,
\* area_min, area_max and desvio_padrao all exactly 0.
C4_SemObjetosTudoZero ==
  (locais.etapas # <<>> /\ Aprovados = {}) =>
    /\ EhResultado
    /\ retorno.total_objetos = 0
    /\ retorno.objetos_detectados = <<>>
    /\ Zero(retorno.estatisticas.area_media)
    /\ Zero(retorno.estatisticas.area_mediana)
    /\ Zero(retorno.estatisticas.area_min)
    /\ Zero(retorno.estatisticas.area_max)
    /\ Zero(retorno.estatisticas.desvio_padrao)

\* components were found and every one of them was filtered out
C4_Witness ==
  /\ locais.etapas # <<>>
  /\ locais.num_labels >= 3
  /\ Aprovados = {}
  /\ retorno.total_objetos = 0

RECURSIVE SomaAreas(_)
SomaAreas(L) ==
  IF L = {} THEN 0
  ELSE LET i == CHOOSE i \in L : TRUE IN locais.stats[i].area + SomaAreas(L \ {i})

RECURSIVE SomaQuadrados(_)
SomaQuadrados(L) ==
  IF L = {} THEN 0
  ELSE LET i == CHOOSE i \in L : TRUE
       IN  locais.stats[i].area * locais.stats[i].area + SomaQuadrados(L \ {i})

Menores(v) == Cardinality({i \in Aprovados : locais.stats[i].area < v})

Maiores(v) == Cardinality({i \in Aprovados : locais.stats[i].area > v})

\* v = num/den is the median of the areas of the labels in Aprovados
EhMediana(v) ==
  LET n == Cardinality(Aprovados)
  IN  IF n % 2 = 1
        THEN /\ v.den = 1
             /\ \E i \in Aprovados : locais.stats[i].area = v.num
             /\ Menores(v.num) <= (n - 1) \div 2
             /\ Maiores(v.num) <= (n - 1) \div 2
        ELSE \E i, j \in Aprovados :
               LET lo == locais.stats[i].area
                   hi == locais.stats[j].area
               IN  /\ lo <= hi
                   /\ Menores(lo) <= (n \div 2) - 1
                   /\ Maiores(lo) <= n \div 2
                   /\ Maiores(hi) <= (n \div 2) - 1
                   /\ Menores(hi) <= n \div 2
                   /\ 2 * v.num = (lo + hi) * v.den

\* C5: for a non-empty list of retained areas, area_media is their mean,
\* area_mediana their interpolated median, desvio_padrao the population
\* standard deviation (variance = (N*sum(a^2) - sum(a)^2) / N^2), area_min
\* and area_max their minimum and maximum; only retained areas count.
C5_EstatisticasCorretas ==
  (EhResultado /\ Aprovados # {}) =>
    LET n == Cardinality(Aprovados)
        t == SomaAreas(Aprovados)
        q == SomaQuadrados(Aprovados)
        e == retorno.estatisticas
    IN  /\ ~e.area_media.raiz /\ e.area_media.den > 0
        /\ e.area_media.num * n = t * e.area_media.den
        /\ ~e.area_mediana.raiz /\ e.area_mediana.den > 0
        /\ EhMediana(e.area_mediana)
        /\ e.desvio_padrao.raiz /\ e.desvio_padrao.den > 0
        /\ e.desvio_padrao.num * n * n = (n * q - t * t) * e.desvio_padrao.den
        /\ ~e.area_min.raiz /\ e.area_min.den = 1
        /\ \E i \in Aprovados : locais.stats[i].area = e.area_min.num
        /\ \A i \in Aprovados : locais.stats[i].area >= e.area_min.num
        /\ ~e.area_max.raiz /\ e.area_max.den = 1
        /\ \E i \in Aprovados : locais.stats[i].area = e.area_max.num
        /\ \A i \in Aprovados : locais.stats[i].area <= e.area_max.num

\* the areas 1, 2, 3 (the example 100, 200, 300 at one hundredth of the
\* size): mean 2, median 2, variance 2/3, min 1, max 3
C5_Witness ==
  /\ EhResultado
  /\ [k \in Posicoes |-> retorno.objetos_detectados[k].area] = <<1, 2, 3>>
  /\ retorno.estatisticas.area_media.num = 2 /\ retorno.estatisticas.area_media.den = 1
  /\ retorno.estatisticas.area_mediana.num = 2 /\ retorno.estatisticas.area_mediana.den = 1
  /\ retorno.estatisticas.desvio_padrao.num = 2 /\ retorno.estatisticas.desvio_padrao.den = 3
  /\ retorno.estatisticas.desvio_padrao.raiz
  /\ retorno.estatisticas.area_min.num = 1
  /\ retorno.estatisticas.area_max.num = 3

\* total_objetos of the same image under the same configuration except for
\* the threshold a
TotalCom(a) ==
  processar([contador EXCEPT !.area_minima = a], caminho_imagem).retorno.total_objetos

\* C6: for a fixed image and otherwise fixed configuration, a larger
\* area_minima never gives a larger total_objetos.
C6_Monotonia ==
  EhResultado =>
    \A a2 \in (contador.area_minima + 1)..MaxAreaMinima :
      TotalCom(a2) <= retorno.total_objetos

\* a larger threshold that gives a strictly smaller, non-zero count
C6_Witness ==
  /\ EhResultado
  /\ \E a2 \in (contador.area_minima + 1)..MaxAreaMinima :
       /\ TotalCom(a2) < retorno.total_objetos
       /\ TotalCom(a2) > 0

Ilegivel(c) == c \notin DOMAIN Disco \/ Disco[c].tipo = "ilegivel"

\* C8: when the image cannot be loaded, processar returns None and no
\* pipeline stage runs.
C8_FalhaDeCargaDevolveNone ==
  (caminho_imagem # "" /\ Ilegivel(caminho_imagem)) =>
    /\ retorno = None
    /\ locais.etapas = <<>>
    /\ locais.visitados = <<>>

\* a call on an undecodable file returned None
C8_Witness ==
  /\ caminho_imagem \in DOMAIN Disco
  /\ Ilegivel(caminho_imagem)
  /\ retorno = None

\* C9: the background (raw label 0) is never visited, counted or reported,
\* whatever its area; the labels are visited in ascending order from 1.
C9_FundoNuncaContado ==
  EhResultado =>
    /\ locais.visitados = [k \in 1..(locais.num_labels - 1) |-> k]
    /\ \A k \in Posicoes : locais.retidos[k] # 0
    /\ retorno.total_objetos = Cardinality(Aprovados)

\* the background is larger than area_minima and some component is kept
C9_Witness ==
  /\ EhResultado
  /\ locais.stats[0].area > contador.area_minima
  /\ retorno.total_objetos >= 1
  /\ \A k \in Posicoes : locais.retidos[k] # 0

\* the file holds the same sample in every pixel
ImagemUniforme(c) ==
  /\ c \in DOMAIN Disco
  /\ Disco[c].tipo = "cinza"
  /\ \A p \in Pixels(Disco[c].pixels) : Disco[c].pixels[p[1]][p[2]] = Disco[c].pixels[1][1]

\* C10: for a uniform-intensity image, of any value and under any
\* segmentation strategy, total_objetos = 0 and all statistics are 0.
C10_UniformeSemObjetos ==
  (caminho_imagem # "" /\ ImagemUniforme(caminho_imagem)) =>
    /\ EhResultado
    /\ retorno.total_objetos = 0
    /\ Zero(retorno.estatisticas.area_media)
    /\ Zero(retorno.estatisticas.area_mediana)
    /\ Zero(retorno.estatisticas.area_min)
    /\ Zero(retorno.estatisticas.area_max)
    /\ Zero(retorno.estatisticas.desvio_padrao)

\* the dark pixels of a gray file
PixelsEscuros(c) ==
  {p \in Pixels(Disco[c].pixels) : Disco[c].pixels[p[1]][p[2]] = 30}

\* the file shows filled dark shapes on a uniform lighter background
FormasEscuras(c) ==
  /\ c \in DOMAIN Disco
  /\ Disco[c].tipo = "cinza"
  /\ PixelsEscuros(c) # {}
  /\ \A p \in Pixels(Disco[c].pixels) \ PixelsEscuros(c) : Disco[c].pixels[p[1]][p[2]] = 220

\* the shapes of the file: its maximal sets of dark pixels, no two of which
\* touch, not even by a corner
Formas(c) == Regioes(PixelsEscuros(c))

\* C11: an image of K pairwise non-touching filled dark shapes, each of at
\* least area_minima + 1 pixels, on a uniform lighter background, processed
\* with OTSU, gives exactly K retained components.
C11_FormasSeparadasContadas ==
  (/\ caminho_imagem # ""
   /\ FormasEscuras(caminho_imagem)
   /\ contador.metodo_segmentacao = OTSU
   /\ \A f \in Formas(caminho_imagem) : Cardinality(f) >= contador.area_minima + 1) =>
    /\ EhResultado
    /\ retorno.total_objetos = Cardinality(Formas(caminho_imagem))

\* ------------------------------------------------------------------------
\* The writers: ProcessadorLote.processar_diretorio (processador_lote.py and
\* src/processors/lote.py) and the dataset processor (processar_dataset_neu.py
\* and src/processors/dataset_neu.py).  A directory is the sequence of paths
\* its glob gives.
\* ------------------------------------------------------------------------
Diretorios ==
  { <<>>,
    <<"tres">>,
    <<"preto", "ausente", "quatro">>,
    <<"corrompida">>,
    <<"bloco", "cinza128">> }

\* the per-image output projection the batch writer keeps
resultado_dict(caminho, resultado) ==
  [arquivo            |-> caminho,
   caminho            |-> caminho,
   total_objetos      |-> resultado.total_objetos,
   estatisticas       |-> resultado.estatisticas,
   objetos_detectados |-> resultado.objetos_detectados]

\* the resultado_dict of ProcessadorDatasetNEU.processar_imagem
resultado_dict_tipo(caminho, tipo_defeito, diretorio, resultado) ==
  [arquivo            |-> caminho,
   caminho_completo   |-> caminho,
   tipo_defeito       |-> tipo_defeito,
   diretorio          |-> diretorio,
   total_objetos      |-> resultado.total_objetos,
   estatisticas       |-> resultado.estatisticas,
   objetos_detectados |-> resultado.objetos_detectados]

\* the per-image output projection of the dataset processor, for an image
\* of train/Crazing
resultado_dict_dataset(caminho, resultado) ==
  resultado_dict_tipo(caminho, "Crazing", "train", resultado)

\* the loop over the images: processar each, keep the projection of every
\* result that is not None; an exception of processar ends the loop
RECURSIVE Projecoes(_, _, _, _, _)
Projecoes(self, classe, imagens, k, resultados) ==
  IF k > Len(imagens) THEN [tipo |-> "list", itens |-> resultados]
  ELSE Seja(processar(self, imagens[k]).retorno, LAMBDA resultado :
         IF resultado = None
           THEN Projecoes(self, classe, imagens, k + 1, resultados)
         ELSE IF resultado.tipo # "ResultadoContagem"
           THEN [tipo |-> resultado.tipo, itens |-> <<>>]
         ELSE Projecoes(self, classe, imagens, k + 1,
                Append(resultados,
                  IF classe = "ProcessadorLote"
                    THEN resultado_dict(imagens[k], resultado)
                    ELSE resultado_dict_dataset(imagens[k], resultado))))

\* int(obj) for a np.integer, float(obj) for a np.floating, obj otherwise
ConverterNumero(v) ==
  IF v.tipo = "numpy.int64" THEN [v EXCEPT !.tipo = "int"]
  ELSE IF v.tipo = "numpy.float64" THEN [v EXCEPT !.tipo = "float"]
  ELSE v

\* converter_para_json_serializavel on the list of projections: the numbers
\* of every dictionary are converted, the containers rebuilt.  Only the
\* estatisticas hold values that may be NumPy scalars; total_objetos and the
\* fields of the objects are built with int() and float() by processar.
converter_para_json_serializavel(obj) ==
  [k \in 1..Len(obj) |->
     [obj[k] EXCEPT !.estatisticas = [f \in DOMAIN @ |-> ConverterNumero(@[f])]]]

\* the numbers of the estatisticas of a list of projections
NumerosDe(dados) ==
  {dados[k].estatisticas[f] : k \in 1..Len(dados),
                              f \in {"total", "area_media", "area_mediana",
                                     "area_min", "area_max", "desvio_padrao"}}

\* json.dump accepts int and float and their subclasses (numpy.float64 is a
\* subclass of float, numpy.int64 is not a subclass of int); anything else
\* raises TypeError
JsonAceita(dados) ==
  \A v \in NumerosDe(dados) : v.tipo \in {"int", "float", "numpy.float64"}

\* a writer right after its construction
NovoLote(classe) ==
  [classe |-> classe, chamadas |-> 0, resultados |-> <<>>,
   json |-> [chamado |-> FALSE, dados |-> <<>>],
   retorno |-> NaoChamado]

\* ProcessadorLote(contador).processar_diretorio(dir, saida, salvar_resultados
\* = salvar): no image, nothing done; otherwise the projections are
\* collected, handed to json.dump as they are when a file is asked for, and
\* kept in self.resultados
ProcessarDiretorio(imagens, salvar) ==
  /\ lote.classe = "ProcessadorLote"
  /\ lote' =
       IF imagens = <<>>
         THEN [lote EXCEPT !.retorno = [tipo |-> "list", itens |-> <<>>]]
       ELSE Seja(Projecoes(contador, "ProcessadorLote", imagens, 1, <<>>),
              LAMBDA resultados :
                IF resultados.tipo # "list"
                  THEN [lote EXCEPT !.retorno = [tipo |-> resultados.tipo, itens |-> <<>>]]
                ELSE IF ~salvar
                  THEN [lote EXCEPT !.resultados = resultados.itens, !.retorno = resultados]
                ELSE IF ~JsonAceita(resultados.itens)
                  THEN [lote EXCEPT !.json = [chamado |-> TRUE, dados |-> resultados.itens],
                                    !.retorno = [tipo |-> "TypeError", itens |-> <<>>]]
                ELSE [lote EXCEPT !.resultados = resultados.itens,
                                  !.json = [chamado |-> TRUE, dados |-> resultados.itens],
                                  !.retorno = resultados])
  /\ UNCHANGED <<contador, caminho_imagem, retorno, locais, primeira, etapa, execucoes, programa>>

\* the counter ProcessadorDatasetNEU.__init__ builds: only area_minima and
\* metodo_segmentacao are passed on, the rest are the defaults of the class
ConfiguracoesDataset ==
  [modulo              : Modulos,
   area_minima         : {0, MaxAreaMinima},
   blur_kernel         : {<<5, 5>>},
   morph_kernel        : {3},
   morph_iterations    : {2},
   metodo_segmentacao  : MetodoSegmentacao]

\* processar_dataset_completo over the images of the dataset: the projections
\* are added to resultados_detalhados, converted by
\* converter_para_json_serializavel and handed to json.dump
ProcessarDatasetCompleto(imagens) ==
  /\ lote.classe = "ProcessadorDatasetNEU"
  /\ lote.chamadas < MaxChamadasDataset
  /\ lote' =
       Seja(Projecoes(contador, "ProcessadorDatasetNEU", imagens, 1, <<>>),
         LAMBDA resultados :
           IF resultados.tipo # "list"
             THEN [lote EXCEPT !.chamadas = @ + 1,
                               !.retorno = [tipo |-> resultados.tipo, itens |-> <<>>]]
             ELSE [lote EXCEPT
                     !.chamadas = @ + 1,
                     !.resultados = @ \o resultados.itens,
                     !.json = [chamado |-> TRUE,
                              dados |-> converter_para_json_serializavel(
                                          lote.resultados \o resultados.itens)],
                     !.retorno = None])
  /\ UNCHANGED <<contador, caminho_imagem, retorno, locais, primeira, etapa, execucoes, programa>>

\* the counters the batch runs are made with
ConfiguracoesLote ==
  {c \in Configuracoes :
     /\ c.area_minima \in {0, MaxAreaMinima}
     /\ c.morph_iterations = MaxIteracoes
     /\ c.blur_kernel = <<1, 1>>}

InitLote ==
  /\ \/ contador \in ConfiguracoesLote /\ lote = NovoLote("ProcessadorLote")
     \/ contador \in ConfiguracoesDataset /\ lote = NovoLote("ProcessadorDatasetNEU")
  /\ caminho_imagem = ""
  /\ retorno = NaoChamado
  /\ locais = SemEtapas
  /\ primeira = NaoChamado
  /\ etapa = NaoChamado
  /\ execucoes = NaoChamado
  /\ programa = NaoChamado

NextLote ==
  \/ \E d \in Diretorios, salvar \in BOOLEAN : ProcessarDiretorio(d, salvar)
  \/ \E d \in Diretorios : ProcessarDatasetCompleto(d)

SpecLote == InitLote /\ [][NextLote]_vars

\* C12: every integer and float field of the per-image projections is a
\* native number, not a NumPy scalar, when it is handed to json.dump, for
\* zero and non-zero object counts, in both module trees and both writers.
C12_NumerosNativosNoJson ==
  lote.json.chamado =>
    \A v \in NumerosDe(lote.json.dados) : v.tipo \in {"int", "float"}

\* ------------------------------------------------------------------------
\* processar statement by statement: several runs on one shared instance,
\* each run with its own position (pc) and its own local variables; a step
\* is one statement of processar, that is one call of a stage method.
\* ------------------------------------------------------------------------
Tarefas == {"t1", "t2"}

CaminhosConcorrentes == {"tres", "bloco", "colorida", "ausente"}

\* a run that has not started: no local variable is bound yet
NovaExecucao ==
  [pc |-> "inicio", caminho |-> "", img_original |-> None, img_preprocessada |-> <<>>,
   img_binaria |-> <<>>, img_morph |-> <<>>, cc |-> None, retorno |-> NaoChamado]

\* variant: the value is kept in an attribute of the shared instance instead
\* of a local variable, so every run sees the latest value written
GuardarNaInstancia(t, campo, valor, pc) ==
  execucoes' = [q \in Tarefas |->
                  [execucoes[q] EXCEPT ![campo] = valor,
                                       !.pc = IF q = t THEN pc ELSE @]]

\* "campo = valor" in run t: binds a local variable of that run and moves
\* the run to the next statement
Guardar(t, campo, valor, pc) ==
  execucoes' = [execucoes EXCEPT ![t] = [@ EXCEPT ![campo] = valor, !.pc = pc]]

\* "return valor" in run t
Retornar(t, valor) ==
  execucoes' = [execucoes EXCEPT ![t] = [@ EXCEPT !.retorno = valor, !.pc = "fim"]]

\* img_original = cv2.imread(caminho_imagem); return None when it is None
Carregar(t, c) ==
  /\ execucoes[t].pc = "inicio"
  /\ \E img \in {imread(c)} :
       IF img = None
         THEN execucoes' = [execucoes EXCEPT ![t] =
                              [@ EXCEPT !.caminho = c, !.retorno = None, !.pc = "fim"]]
         ELSE execucoes' = [execucoes EXCEPT ![t] =
                              [@ EXCEPT !.caminho = c, !.img_original = img,
                                        !.pc = "carregada"]]
  /\ UNCHANGED <<contador, caminho_imagem, retorno, locais, primeira, lote, etapa, programa>>

\* variant: the stage normalises the kernel size on the instance
PreprocessarAjustando(t) ==
  /\ execucoes[t].pc = "carregada"
  /\ Guardar(t, "img_preprocessada",
             preprocessar_imagem(contador, execucoes[t].img_original), "preprocessada")
  /\ contador' = [contador EXCEPT !.blur_kernel = <<1, 1>>]
  /\ UNCHANGED <<caminho_imagem, retorno, locais, primeira, lote, etapa, programa>>

\* img_preprocessada = self.preprocessar_imagem(img_original)
Preprocessar(t) ==
  /\ execucoes[t].pc = "carregada"
  /\ IF KsizeValido(contador.blur_kernel)
       THEN Guardar(t, "img_preprocessada",
                    preprocessar_imagem(contador, execucoes[t].img_original), "preprocessada")
       ELSE Retornar(t, ErroNoPreprocessamento.retorno)
  /\ UNCHANGED <<contador, caminho_imagem, retorno, locais, primeira, lote, etapa, programa>>

\* img_binaria = self.segmentar_imagem(img_preprocessada)
Segmentar(t) ==
  /\ execucoes[t].pc = "preprocessada"
  /\ Guardar(t, "img_binaria",
             segmentar_imagem(contador, execucoes[t].img_preprocessada), "segmentada")
  /\ UNCHANGED <<contador, caminho_imagem, retorno, locais, primeira, lote, etapa, programa>>

\* variant: the cleanup runs before the segmentation, on the smoothed image
MorfologiaAntesDaSegmentacao(t) ==
  /\ execucoes[t].pc = "preprocessada"
  /\ Guardar(t, "img_morph",
             aplicar_morfologia(contador, execucoes[t].img_preprocessada), "limpa")
  /\ UNCHANGED <<contador, caminho_imagem, retorno, locais, primeira, lote, etapa, programa>>

\* img_morph = self.aplicar_morfologia(img_binaria)
Morfologia(t) ==
  /\ execucoes[t].pc = "segmentada"
  /\ Guardar(t, "img_morph",
             aplicar_morfologia(contador, execucoes[t].img_binaria), "limpa")
  /\ UNCHANGED <<contador, caminho_imagem, retorno, locais, primeira, lote, etapa, programa>>

\* num_labels, labels, stats, centroids = self.contar_componentes(img_morph)
Componentes(t) ==
  /\ execucoes[t].pc = "limpa"
  /\ Guardar(t, "cc", contar_componentes(execucoes[t].img_morph), "rotulada")
  /\ UNCHANGED <<contador, caminho_imagem, retorno, locais, primeira, lote, etapa, programa>>

\* the loop over the labels, the statistics and the return
Filtrar(t) ==
  /\ execucoes[t].pc = "rotulada"
  /\ \E fim \in {FiltrarObjetos(contador, execucoes[t].cc, PrimeiroRotulo,
                   [contagem_final |-> 0, objetos_detectados |-> <<>>,
                    img_resultado |-> Copia(execucoes[t].img_original),
                    visitados |-> <<>>, retidos |-> <<>>])} :
       Retornar(t, Devolver(contador, execucoes[t].img_original, execucoes[t].img_binaria,
                            execucoes[t].img_morph, execucoes[t].cc, fim).retorno)
  /\ UNCHANGED <<contador, caminho_imagem, retorno, locais, primeira, lote, etapa, programa>>

InitConcorrente ==
  /\ contador \in ConfiguracoesHistorico
  /\ caminho_imagem = ""
  /\ retorno = NaoChamado
  /\ locais = SemEtapas
  /\ primeira = NaoChamado
  /\ lote = NaoChamado
  /\ etapa = NaoChamado
  /\ execucoes = [t \in Tarefas |-> NovaExecucao]
  /\ programa = NaoChamado

NextConcorrente ==
  \E t \in Tarefas :
    \/ \E c \in CaminhosConcorrentes : Carregar(t, c)
    \/ Preprocessar(t)
    \/ Segmentar(t)
    \/ Morfologia(t)
    \/ Componentes(t)
    \/ Filtrar(t)

SpecConcorrente == InitConcorrente /\ [][NextConcorrente]_vars

\* the order of the statements of processar: position before, position after
Sequencia ==
  { <<"inicio", "carregada">>, <<"inicio", "fim">>,
    <<"carregada", "preprocessada">>, <<"preprocessada", "segmentada">>,
    <<"segmentada", "limpa">>, <<"limpa", "rotulada">>, <<"rotulada", "fim">> }

\* the step from a to b of one run is the next stage of the pipeline, run on
\* what the stage before it produced
EtapaSeguinte(a, b) ==
  /\ <<a.pc, b.pc>> \in Sequencia
  /\ (a.pc = "inicio" /\ b.pc = "fim") => b.retorno = None
  /\ b.pc = "preprocessada" =>
       b.img_preprocessada = preprocessar_imagem(contador, a.img_original)
  /\ b.pc = "segmentada" =>
       b.img_binaria = segmentar_imagem(contador, a.img_preprocessada)
  /\ b.pc = "limpa" =>
       b.img_morph = aplicar_morfologia(contador, a.img_binaria)
  /\ b.pc = "rotulada" =>
       b.cc = contar_componentes(a.img_morph)
  /\ (a.pc = "rotulada" /\ b.pc = "fim") =>
       /\ b.retorno.tipo = "ResultadoContagem"
       /\ b.retorno.total_objetos =
            Cardinality({i \in 1..(a.cc.num_labels - 1) :
                           a.cc.stats[i].area > contador.area_minima})

\* C13: in every processar call that loads an image the stages run once
\* each, in the order preprocess, segment, morphological cleanup, component
\* extraction, filter/aggregate, each one on the output of the one before.
C13_EtapasEmOrdem ==
  [][\A t \in Tarefas :
       execucoes'[t].pc # execucoes[t].pc => EtapaSeguinte(execucoes[t], execucoes'[t])]_vars

\* a run went through every stage and returned objects while the other run
\* had not started
C13_Witness ==
  \E t \in Tarefas :
    /\ execucoes[t].pc = "fim"
    /\ execucoes[t].retorno.tipo = "ResultadoContagem"
    /\ execucoes[t].retorno.total_objetos >= 1
    /\ \A q \in Tarefas \ {t} : execucoes[q].pc = "inicio"

\* C14: no call of processar or of a stage method changes the configuration
\* the constructor set, and the instance gets no other attribute.
C14_ConfiguracaoImutavel == [][contador' = contador]_vars

\* a run finished on the instance while another one is between two stages
C14_Witness ==
  \E t, q \in Tarefas :
    /\ execucoes[t].pc = "fim"
    /\ execucoes[t].retorno.tipo = "ResultadoContagem"
    /\ execucoes[q].pc = "segmentada"
    /\ contador \in ConfiguracoesHistorico

\* C17: interleaved runs on one instance return what each returns when it
\* runs alone.
C17_ExecucoesIndependentes ==
  \A t \in Tarefas :
    execucoes[t].pc = "fim" =>
      execucoes[t].retorno = processar(contador, execucoes[t].caminho).retorno

\* two runs on different images both returned objects
C17_Witness ==
  \E t, q \in Tarefas :
    /\ execucoes[t].pc = "fim" /\ execucoes[q].pc = "fim"
    /\ execucoes[t].caminho # execucoes[q].caminho
    /\ execucoes[t].retorno.tipo = "ResultadoContagem"
    /\ execucoes[q].retorno.tipo = "ResultadoContagem"
    /\ execucoes[t].retorno.total_objetos >= 1
    /\ execucoes[q].retorno.total_objetos >= 1

\* C15: boxes and id labels are drawn on a copy only: the imagem_original of
\* the result is the loaded image, without any mark, and imagem_resultado is
\* another array, holding the loaded pixels and the marks of the objects.
C15_OriginalIntacta ==
  EhResultado =>
    /\ retorno.imagem_original = imread(caminho_imagem)
    /\ retorno.imagem_original.marcas = <<>>
    /\ retorno.imagem_resultado.memoria # retorno.imagem_original.memoria
    /\ retorno.imagem_resultado.pixels = retorno.imagem_original.pixels
    /\ Len(retorno.imagem_resultado.marcas) = 2 * retorno.total_objetos

\* several objects were boxed and numbered
C15_Witness ==
  /\ EhResultado
  /\ retorno.total_objetos >= 2
  /\ Len(retorno.imagem_resultado.marcas) >= 4
  /\ retorno.imagem_original.marcas = <<>>

\* ------------------------------------------------------------------------
\* Construction: the caller builds the instance with arguments of its own
\* choice, then calls processar on it.
\* ------------------------------------------------------------------------
NaoConstruido == [tipo |-> "nao construido"]

\* arguments a caller may pass to the constructor, valid or not
ArgumentosConstrucao ==
  [modulo              : Modulos,
   area_minima         : {-1, 0, 2},
   blur_kernel         : {<<1, 1>>, <<4, 4>>, <<5, 5>>},
   morph_kernel        : {3},
   morph_iterations    : {1},
   metodo_segmentacao  : MetodoSegmentacao]

\* __init__ stores its arguments as they come: no check, no exception
ContadorObjetosIndustrial(args) ==
  [modulo              |-> args.modulo,
   area_minima         |-> args.area_minima,
   blur_kernel         |-> args.blur_kernel,
   morph_kernel        |-> args.morph_kernel,
   morph_iterations    |-> args.morph_iterations,
   metodo_segmentacao  |-> args.metodo_segmentacao]

InitConstrucao ==
  /\ contador = NaoConstruido
  /\ caminho_imagem = ""
  /\ retorno = NaoChamado
  /\ locais = SemEtapas
  /\ primeira = NaoChamado
  /\ lote = NaoChamado
  /\ etapa = NaoChamado
  /\ execucoes = NaoChamado
  /\ programa = NaoChamado

\* contador = ContadorObjetosIndustrial(...)
Construir(args) ==
  /\ contador = NaoConstruido
  /\ contador' = ContadorObjetosIndustrial(args)
  /\ UNCHANGED <<caminho_imagem, retorno, locais, primeira, lote, etapa, execucoes, programa>>

\* contador.processar(c) on the instance constructed
ProcessarConstruido(c) ==
  /\ contador # NaoConstruido
  /\ Processar(c)

NextConstrucao ==
  \/ \E args \in ArgumentosConstrucao : Construir(args)
  \/ \E c \in Caminhos : ProcessarConstruido(c)

SpecConstrucao == InitConstrucao /\ [][NextConstrucao]_vars

\* C16: an instance that exists has a valid configuration (odd positive
\* smoothing kernel, area_minima not negative), so no pipeline run is made
\* with an invalid one and none fails after its image was loaded.
C16_ConfiguracaoValidadaNaConstrucao ==
  /\ contador # NaoConstruido =>
       /\ KsizeValido(contador.blur_kernel)
       /\ contador.area_minima >= 0
  /\ retorno.tipo # "cv2.error"

\* ------------------------------------------------------------------------
\* The stage methods called on their own: segmentar_imagem on a grayscale
\* image, aplicar_morfologia on a binary image or on what segmentar_imagem
\* returned.
\* ------------------------------------------------------------------------
\* default of morph_iterations
PadraoIteracoes == 2

NiveisCinza == {0, 100, 200}

\* the 2x3 grayscale images over three grey levels
ImagensCinza ==
  {Tupla([y \in 1..2 |-> Tupla(f[y])]) : f \in [1..2 -> [1..3 -> NiveisCinza]]}

\* a 5x5 image that is dentro on the rectangle ys x xs and fora elsewhere
Retangulo(ys, xs, dentro, fora) ==
  Tupla([y \in 1..5 |-> Tupla([x \in 1..5 |->
     IF y \in ys /\ x \in xs THEN dentro ELSE fora])])

Intervalos == {a..b : a \in 1..5, b \in 1..5} \ {{}}

\* binary images: every 3x3 one, and the 5x5 ones with one white rectangle
\* on black or one black rectangle on white
ImagensBinarias ==
  {Tupla([y \in 1..3 |-> Tupla(f[y])]) : f \in [1..3 -> [1..3 -> {0, 255}]]}
    \cup {Retangulo(ys, xs, 255, 0) : ys \in Intervalos, xs \in Intervalos}
    \cup {Retangulo(ys, xs, 0, 255) : ys \in Intervalos, xs \in Intervalos}

ConfiguracoesEtapas ==
  [modulo              : {"contador_objetos"},
   area_minima         : {0},
   blur_kernel         : {<<5, 5>>},
   morph_kernel        : {1, 3},
   morph_iterations    : 0..PadraoIteracoes,
   metodo_segmentacao  : MetodoSegmentacao]

SemSaida == <<>>

InitEtapas ==
  /\ contador \in ConfiguracoesEtapas
  /\ etapa \in [metodo : {"nenhum"}, entrada : ImagensCinza \cup ImagensBinarias,
                saida : {SemSaida}]
  /\ caminho_imagem = ""
  /\ retorno = NaoChamado
  /\ locais = SemEtapas
  /\ primeira = NaoChamado
  /\ lote = NaoChamado
  /\ execucoes = NaoChamado
  /\ programa = NaoChamado

\* img_binaria = contador.segmentar_imagem(entrada)
SegmentarImagem ==
  /\ etapa.metodo = "nenhum"
  /\ etapa.entrada \in ImagensCinza
  /\ etapa' = [metodo  |-> "segmentar_imagem",
               entrada |-> etapa.entrada,
               saida   |-> segmentar_imagem(contador, etapa.entrada)]
  /\ UNCHANGED <<contador, caminho_imagem, retorno, locais, primeira, lote, execucoes, programa>>

\* img_morph = contador.aplicar_morfologia(img_binaria), on a binary image
\* given or on the one segmentar_imagem just returned
AplicarMorfologia ==
  /\ \/ etapa.metodo = "nenhum" /\ etapa.entrada \in ImagensBinarias
     \/ etapa.metodo = "segmentar_imagem"
  /\ \E img_binaria \in {IF etapa.metodo = "nenhum" THEN etapa.entrada ELSE etapa.saida} :
       etapa' = [metodo  |-> "aplicar_morfologia",
                 entrada |-> img_binaria,
                 saida   |-> aplicar_morfologia(contador, img_binaria)]
  /\ UNCHANGED <<contador, caminho_imagem, retorno, locais, primeira, lote, execucoes, programa>>

\* contador.contar_componentes(imagem_binaria) on a binary image given
ContarComponentes ==
  /\ etapa.metodo = "nenhum"
  /\ etapa.entrada \in ImagensBinarias
  /\ etapa' = [metodo  |-> "contar_componentes",
               entrada |-> etapa.entrada,
               saida   |-> contar_componentes(etapa.entrada)]
  /\ UNCHANGED <<contador, caminho_imagem, retorno, locais, primeira, lote, execucoes, programa>>

NextEtapas == SegmentarImagem \/ AplicarMorfologia \/ ContarComponentes

SpecEtapas == InitEtapas /\ [][NextEtapas]_vars

\* a single-channel image of the values 0 and 255 only
Binaria(img) ==
  \A y \in 1..Altura(img) : \A x \in 1..Largura(img) : img[y][x] \in {0, 255}

MesmaForma(a, b) == Altura(a) = Altura(b) /\ Largura(a) = Largura(b)

\* C18: whatever the strategy and the grayscale input, segmentar_imagem
\* returns an image of the input's size holding only 0 and 255, and
\* aplicar_morfologia returns only 0 and 255 for such an input.
C18_SaidasBinarias ==
  /\ etapa.metodo = "segmentar_imagem" =>
       MesmaForma(etapa.saida, etapa.entrada) /\ Binaria(etapa.saida)
  /\ (etapa.metodo = "aplicar_morfologia" /\ Binaria(etapa.entrada)) =>
       MesmaForma(etapa.saida, etapa.entrada) /\ Binaria(etapa.saida)

\* a morphology that changed its input and left both values in its output
C18_Witness ==
  /\ etapa.metodo = "aplicar_morfologia"
  /\ etapa.saida # etapa.entrada
  /\ \E y \in 1..Altura(etapa.saida) : \E x \in 1..Largura(etapa.saida) :
       etapa.saida[y][x] = 255
  /\ \E y \in 1..Altura(etapa.saida) : \E x \in 1..Largura(etapa.saida) :
       etapa.saida[y][x] = 0

\* C19 as stated: under OTSU a pixel is foreground exactly when its intensity
\* is strictly below the selected threshold.
C19_PrimeiroPlanoAbaixoDoLimiar ==
  (etapa.metodo = "segmentar_imagem" /\ contador.metodo_segmentacao = OTSU) =>
    \A y \in 1..Altura(etapa.entrada) : \A x \in 1..Largura(etapa.entrada) :
      (etapa.saida[y][x] = 255) <=> (etapa.entrada[y][x] < LimiarOtsu(etapa.entrada))

\* C19 amended: under OTSU a pixel is foreground (255) exactly when its
\* intensity is at most the selected threshold, and background (0) otherwise;
\* a pixel whose intensity equals the threshold is foreground.
C19_PrimeiroPlanoAteOLimiar ==
  (etapa.metodo = "segmentar_imagem" /\ contador.metodo_segmentacao = OTSU) =>
    \A y \in 1..Altura(etapa.entrada) : \A x \in 1..Largura(etapa.entrada) :
      /\ (etapa.saida[y][x] = 255) <=> (etapa.entrada[y][x] <= LimiarOtsu(etapa.entrada))
      /\ (etapa.saida[y][x] = 0) <=> (etapa.entrada[y][x] > LimiarOtsu(etapa.entrada))

\* an image with pixels at the threshold, below it and above it
C19_Witness ==
  /\ etapa.metodo = "segmentar_imagem"
  /\ contador.metodo_segmentacao = OTSU
  /\ \E y \in 1..Altura(etapa.entrada) : \E x \in 1..Largura(etapa.entrada) :
       etapa.entrada[y][x] = LimiarOtsu(etapa.entrada) /\ etapa.saida[y][x] = 255
  /\ \E y \in 1..Altura(etapa.entrada) : \E x \in 1..Largura(etapa.entrada) :
       etapa.entrada[y][x] < LimiarOtsu(etapa.entrada) /\ etapa.saida[y][x] = 255
  /\ \E y \in 1..Altura(etapa.entrada) : \E x \in 1..Largura(etapa.entrada) :
       etapa.entrada[y][x] > LimiarOtsu(etapa.entrada) /\ etapa.saida[y][x] = 0

\* C20 as stated: the output is morph_iterations openings in a row (each an
\* erosion followed by a dilation) followed by morph_iterations closings in
\* a row (each a dilation followed by an erosion).
C20_AberturasEFechamentosRepetidos ==
  etapa.metodo = "aplicar_morfologia" =>
    etapa.saida =
      FecharVezes(AbrirVezes(etapa.entrada, contador.morph_kernel, contador.morph_iterations),
                  contador.morph_kernel, contador.morph_iterations)

\* C20 amended: with n = morph_iterations and the square all-ones element of
\* side morph_kernel, the output is n erosions, then n dilations (the
\* opening), then n dilations, then n erosions (the closing), in that order.
C20_ErosoesDilatacoesEmBloco ==
  etapa.metodo = "aplicar_morfologia" =>
    \E n \in {contador.morph_iterations} : \E k \in {contador.morph_kernel} :
      etapa.saida = Erode(Dilate(Dilate(Erode(etapa.entrada, k, n), k, n), k, n), k, n)

\* two iterations with the 3x3 element, on an image where the two readings
\* of "iterations" give different outputs
C20_Witness ==
  /\ etapa.metodo = "aplicar_morfologia"
  /\ contador.morph_iterations = PadraoIteracoes
  /\ contador.morph_kernel = 3
  /\ etapa.saida # etapa.entrada
  /\ etapa.saida #
       FecharVezes(AbrirVezes(etapa.entrada, contador.morph_kernel, contador.morph_iterations),
                   contador.morph_kernel, contador.morph_iterations)

\* C21: with morph_iterations = 0 aplicar_morfologia returns its input pixel
\* for pixel, for every binary image and either structuring element.
C21_ZeroIteracoesIdentidade ==
  (etapa.metodo = "aplicar_morfologia" /\ contador.morph_iterations = 0) =>
    /\ MesmaForma(etapa.saida, etapa.entrada)
    /\ \A y \in 1..Altura(etapa.entrada) : \A x \in 1..Largura(etapa.entrada) :
         etapa.saida[y][x] = etapa.entrada[y][x]

\* zero iterations with the 3x3 element on an image that one opening would
\* change
C21_Witness ==
  /\ etapa.metodo = "aplicar_morfologia"
  /\ contador.morph_iterations = 0
  /\ contador.morph_kernel = 3
  /\ etapa.saida = etapa.entrada
  /\ MorphOpen(etapa.entrada, 3, 1) # etapa.entrada

\* the pixels of F a path of edge- or corner-sharing pixels of F leads to
\* from a pixel of S
RECURSIVE Fecho(_, _)
Fecho(S, F) ==
  LET mais == {q \in F \ S : \E p \in S : (p[1] - q[1]) \in -1..1 /\ (p[2] - q[2]) \in -1..1}
  IN  IF mais = {} THEN S ELSE Fecho(S \cup mais, F)

PrimeiroPlano(img) == {p \in Pixels(img) : img[p[1]][p[2]] # 0}

ComRotulo(labels, i) == {p \in Pixels(labels) : labels[p[1]][p[2]] = i}

\* C22: contar_componentes gives the background label 0 and every foreground
\* pixel a positive label; two foreground pixels have the same label if and
\* only if a path of 8-adjacent foreground pixels joins them; every label
\* 1..num_labels-1 is a region of at least one pixel, reported with its pixel
\* count as area, whatever its size.
C22_Rotulos8Conexos ==
  etapa.metodo = "contar_componentes" =>
    LET F  == PrimeiroPlano(etapa.entrada)
        cc == etapa.saida
    IN  /\ \A p \in Pixels(etapa.entrada) :
             IF p \in F THEN cc.labels[p[1]][p[2]] \in 1..(cc.num_labels - 1)
                        ELSE cc.labels[p[1]][p[2]] = 0
        /\ \A p \in F : \E ligados \in {Fecho({p}, F)} : \A q \in F :
             (cc.labels[p[1]][p[2]] = cc.labels[q[1]][q[2]]) <=> (q \in ligados)
        /\ \A i \in 1..(cc.num_labels - 1) :
             /\ ComRotulo(cc.labels, i) # {}
             /\ cc.stats[i].area = Cardinality(ComRotulo(cc.labels, i))

\* two pixels touching by a corner only share a label, and a region of one
\* pixel is reported with area 1
C22_Witness ==
  /\ etapa.metodo = "contar_componentes"
  /\ etapa.saida.num_labels = 3
  /\ \E p \in PrimeiroPlano(etapa.entrada) : \E q \in PrimeiroPlano(etapa.entrada) :
       /\ Abs(p[1] - q[1]) = 1 /\ Abs(p[2] - q[2]) = 1
       /\ etapa.saida.labels[p[1]][p[2]] = etapa.saida.labels[q[1]][q[2]]
       /\ etapa.saida.stats[etapa.saida.labels[p[1]][p[2]]].area = 2
  /\ \E i \in 1..2 : etapa.saida.stats[i].area = 1

\* ------------------------------------------------------------------------
\* ProcessadorLote.processar_diretorio with its files: the input directory
\* as the operating system lists it, the glob over the extensions, the
\* directories and files the call creates, in the order it creates them.
\* ------------------------------------------------------------------------
MaxChamadasLote == 2

\* a directory entry: the stem names the content on the disk
Arquivo(stem, ext) == [stem |-> stem, ext |-> ext]

\* the directories a caller may name: absent, or the entries in listing order
PastasDeEntrada ==
  [ inexistente |-> [existe |-> FALSE, entradas |-> <<>>],
    sem_imagens |-> [existe |-> TRUE, entradas |-> <<Arquivo("notas", ".txt")>>],
    pecas       |-> [existe |-> TRUE,
                     entradas |-> <<Arquivo("tres", ".png"), Arquivo("corrompida", ".jpg"),
                                    Arquivo("cinza128", ".png"), Arquivo("quatro", ".PNG"),
                                    Arquivo("notas", ".txt")>>] ]

\* the default of extensoes
ExtensoesPadrao == <<".jpg", ".jpeg", ".png", ".bmp", ".tiff", ".tif">>

\* an optional argument that was given
Dado(v) == [tipo |-> "dado", valor |-> v]

\* the extension lists callers pass, None for the default
ListasDeExtensoes == {None, Dado(<<".png">>), Dado(<<".PNG">>)}

\* str.upper() on the extensions in use
Upper(ext) ==
  CASE ext \in {".jpg", ".JPG"}   -> ".JPG"
    [] ext \in {".jpeg", ".JPEG"} -> ".JPEG"
    [] ext \in {".png", ".PNG"}   -> ".PNG"
    [] ext \in {".bmp", ".BMP"}   -> ".BMP"
    [] ext \in {".tiff", ".TIFF"} -> ".TIFF"
    [] ext \in {".tif", ".TIF"}   -> ".TIF"

\* Path.glob('*' + ext) on a case-sensitive file system: the entries whose
\* name ends with ext, in listing order
Glob(entradas, ext) == SelectSeq(entradas, LAMBDA a : a.ext = ext)

\* the second glob of the loop body: '*' + ext.upper()
GlobMaiusculas(entradas, ext) == Glob(entradas, Upper(ext))

\* the loop "for ext in extensoes": both globs of every extension, appended
RECURSIVE EncontrarImagens(_, _, _)
EncontrarImagens(entradas, extensoes, k) ==
  IF k > Len(extensoes) THEN <<>>
  ELSE Glob(entradas, extensoes[k]) \o GlobMaiusculas(entradas, extensoes[k])
         \o EncontrarImagens(entradas, extensoes, k + 1)

Escrita(op, alvo, dados) == [op |-> op, alvo |-> alvo, dados |-> dados]

\* variant: a result without objects is taken for no result
SemResultadoOuVazio(resultado) ==
  resultado = None \/ (resultado.tipo = "ResultadoContagem" /\ resultado.total_objetos = 0)

\* "if resultado:" is false for None only
SemResultado(resultado) == resultado = None

\* the loop over the images found: processar each; for a result that is not
\* None write the annotated image and the visualization when an output
\* directory is given, and append the projection.  acc holds resultados, the
\* processar calls made (processadas) and the files written (escritas)
RECURSIVE LoopImagens(_, _, _, _, _)
LoopImagens(self, imagens, k, args, acc) ==
  IF k > Len(imagens) THEN [acc EXCEPT !.tipo = "list"]
  ELSE Seja(processar(self, imagens[k].stem).retorno, LAMBDA resultado :
         IF SemResultado(resultado)
           THEN LoopImagens(self, imagens, k + 1, args,
                  [acc EXCEPT !.processadas = Append(@, [arquivo |-> imagens[k], k |-> k,
                                                        sucesso |-> FALSE])])
         ELSE IF resultado # None /\ resultado.tipo # "ResultadoContagem"
           THEN [acc EXCEPT !.tipo = resultado.tipo]
         ELSE LoopImagens(self, imagens, k + 1, args,
                [acc EXCEPT
                   !.processadas = Append(@, [arquivo |-> imagens[k], k |-> k,
                                              sucesso |-> TRUE]),
                   !.escritas = @
                      \o (IF args.diretorio_saida # None
                            THEN <<Escrita("imwrite", <<"resultados", imagens[k].stem>>, k)>>
                            ELSE <<>>)
                      \o (IF args.salvar_visualizacoes /\ args.diretorio_saida # None
                            THEN <<Escrita("savefig", <<"visualizacoes", imagens[k].stem>>, k)>>
                            ELSE <<>>),
                   !.resultados = Append(@, resultado_dict(imagens[k], resultado))]))

\* a ProcessadorLote right after __init__
NovoProcessadorLote ==
  [classe |-> "ProcessadorLote", chamadas |-> 0, resultados |-> <<>>,
   args |-> None, imagens |-> <<>>, processadas |-> <<>>, escritas |-> <<>>,
   retorno |-> NaoChamado]

\* processar_diretorio(**args) on the instance lote with the counter self:
\* the instance after the call, with what the call did and returned
processar_diretorio(lote_, self, args) ==
  LET extensoes == IF args.extensoes = None THEN ExtensoesPadrao ELSE args.extensoes.valor
      pasta     == PastasDeEntrada[args.diretorio_entrada]
      criadas   == IF args.diretorio_saida # None
                     THEN <<Escrita("mkdir", <<"saida">>, 0),
                            Escrita("mkdir", <<"visualizacoes">>, 0),
                            Escrita("mkdir", <<"resultados">>, 0)>>
                     ELSE <<>>
      chamado   == [lote_ EXCEPT !.chamadas = @ + 1, !.args = args, !.imagens = <<>>,
                                 !.processadas = <<>>, !.escritas = <<>>]
  IN  IF ~pasta.existe
        THEN [chamado EXCEPT !.retorno = [tipo |-> "list", itens |-> <<>>]]
      ELSE Seja(EncontrarImagens(pasta.entradas, extensoes, 1), LAMBDA imagens :
        IF imagens = <<>>
          THEN [chamado EXCEPT !.escritas = criadas,
                               !.retorno = [tipo |-> "list", itens |-> <<>>]]
        ELSE Seja(LoopImagens(self, imagens, 1, args,
                    [tipo |-> "list", resultados |-> <<>>, processadas |-> <<>>,
                     escritas |-> criadas]), LAMBDA fim :
          IF fim.tipo # "list"
            THEN [chamado EXCEPT !.imagens = imagens, !.processadas = fim.processadas,
                                 !.escritas = fim.escritas,
                                 !.retorno = [tipo |-> fim.tipo, itens |-> <<>>]]
          ELSE IF args.salvar_resultados /\ args.diretorio_saida # None
            THEN IF JsonAceita(fim.resultados)
                   THEN [chamado EXCEPT
                           !.imagens = imagens, !.processadas = fim.processadas,
                           !.escritas = fim.escritas \o
                              <<Escrita("json.dump", <<"resultados_lote.json">>, fim.resultados)>>,
                           !.resultados = fim.resultados,
                           !.retorno = [tipo |-> "list", itens |-> fim.resultados]]
                   \* json.dump raises on the first NumPy integer: the file
                   \* was opened and holds the text written so far
                   ELSE [chamado EXCEPT
                           !.imagens = imagens, !.processadas = fim.processadas,
                           !.escritas = fim.escritas \o
                              <<Escrita("json.dump interrompido", <<"resultados_lote.json">>, <<>>)>>,
                           !.retorno = [tipo |-> "TypeError", itens |-> <<>>]]
          ELSE [chamado EXCEPT
                  !.imagens = imagens, !.processadas = fim.processadas,
                  !.escritas = fim.escritas,
                  !.resultados = fim.resultados,
                  !.retorno = [tipo |-> "list", itens |-> fim.resultados]]))

\* the arguments of a call
ArgumentosDiretorio ==
  [diretorio_entrada    : DOMAIN PastasDeEntrada,
   diretorio_saida      : {None, Dado("saida")},
   extensoes            : ListasDeExtensoes,
   salvar_visualizacoes : BOOLEAN,
   salvar_resultados    : BOOLEAN]

\* the counters of the runs over directories: no smoothing, 1x1 element,
\* Otsu, every component kept, in either module tree
ConfiguracoesDiretorio ==
  {c \in Configuracoes :
     /\ c.area_minima = 0
     /\ c.morph_iterations = MaxIteracoes
     /\ c.morph_kernel = 1
     /\ c.blur_kernel = <<1, 1>>
     /\ c.metodo_segmentacao = OTSU}

\* ------------------------------------------------------------------------
\* ProcessadorDatasetNEU: one folder per directory and defect type below
\* caminho_dataset, processed by processar_diretorio_tipo; the aggregates
\* processar_dataset_completo keeps in self.estatisticas_globais.
\* ------------------------------------------------------------------------
tipos_defeitos == <<"Crazing", "Inclusion", "Patches", "Pitted", "Rolled", "Scratches">>

diretorios_dataset == <<"train", "test", "valid">>

Ausente == [existe |-> FALSE, entradas |-> <<>>]

\* caminho_dataset / diretorio / tipo_defeito on the disk
PastaDoDataset(caminho_dataset, diretorio, tipo_defeito) ==
  IF caminho_dataset # "NEU" THEN Ausente
  ELSE CASE <<diretorio, tipo_defeito>> = <<"train", "Crazing">> ->
              [existe |-> TRUE,
               entradas |-> <<Arquivo("bloco", ".bmp"), Arquivo("corrompida", ".bmp"),
                              Arquivo("tres", ".BMP")>>]
         [] <<diretorio, tipo_defeito>> = <<"train", "Patches">> ->
              [existe |-> TRUE, entradas |-> <<Arquivo("preto", ".bmp")>>]
         [] <<diretorio, tipo_defeito>> = <<"test", "Crazing">> ->
              [existe |-> TRUE, entradas |-> <<Arquivo("preto", ".bmp"), Arquivo("cinza128", ".bmp")>>]
         [] <<diretorio, tipo_defeito>> = <<"test", "Pitted">> ->
              [existe |-> TRUE, entradas |-> <<Arquivo("notas", ".txt")>>]
         [] OTHER -> Ausente

\* the datasets instances are constructed on: the one above and a path
\* with nothing below it
CaminhosDataset == {"NEU", "outro"}

\* the loop of processar_diretorio_tipo: processar_imagem on each image,
\* which writes the files the instance was asked for and returns the
\* projection, or None when processar gave no result
RECURSIVE LoopTipo(_, _, _, _, _, _, _)
LoopTipo(lote_, self, imagens, k, diretorio, tipo_defeito, acc) ==
  IF k > Len(imagens) THEN acc
  ELSE Seja(processar(self, imagens[k].stem).retorno, LAMBDA resultado :
         IF SemResultado(resultado)
           THEN LoopTipo(lote_, self, imagens, k + 1, diretorio, tipo_defeito,
                  [acc EXCEPT !.processadas = Append(@, [arquivo |-> imagens[k], k |-> k,
                                                        sucesso |-> FALSE])])
         ELSE LoopTipo(lote_, self, imagens, k + 1, diretorio, tipo_defeito,
                [acc EXCEPT
                   !.processadas = Append(@, [arquivo |-> imagens[k], k |-> k,
                                              sucesso |-> TRUE]),
                   !.escritas = @
                      \o (IF lote_.salvar_imagens_resultado
                            THEN <<Escrita("imwrite",
                                           <<"imagens_resultado", tipo_defeito, imagens[k].stem>>, k)>>
                            ELSE <<>>)
                      \o (IF lote_.salvar_visualizacoes
                            THEN <<Escrita("savefig",
                                           <<"visualizacoes", tipo_defeito, imagens[k].stem>>, k)>>
                            ELSE <<>>),
                   !.resultados = Append(@,
                      resultado_dict_tipo(imagens[k], tipo_defeito, diretorio, resultado))]))

\* processar_diretorio_tipo(diretorio, tipo_defeito): the list it returns,
\* with the images it found, the processar calls and the files written
processar_diretorio_tipo(lote_, self, diretorio, tipo_defeito) ==
  LET pasta == PastaDoDataset(lote_.caminho_dataset, diretorio, tipo_defeito)
      nada  == [diretorio |-> diretorio, tipo_defeito |-> tipo_defeito,
                imagens |-> <<>>, resultados |-> <<>>, processadas |-> <<>>,
                escritas |-> <<>>]
  IN  IF ~pasta.existe THEN nada
      ELSE Seja(Glob(pasta.entradas, ".bmp") \o Glob(pasta.entradas, ".BMP"), LAMBDA imagens :
             IF imagens = <<>> THEN nada
             ELSE LoopTipo(lote_, self, imagens, 1, diretorio, tipo_defeito,
                           [nada EXCEPT !.imagens = imagens]))

RECURSIVE SomaObjetos(_)
SomaObjetos(resultados) ==
  IF resultados = <<>> THEN 0
  ELSE Head(resultados).total_objetos + SomaObjetos(Tail(resultados))

\* por_diretorio[diretorio] after a directory with results: assigned
PorDiretorio(antes, resultados_diretorio) ==
  [imagens |-> Len(resultados_diretorio),
   objetos |-> SomaObjetos(resultados_diretorio)]

\* the two nested loops of processar_dataset_completo, one step per folder:
\* folder k is directory ((k-1) div 6)+1, defect type ((k-1) mod 6)+1.  acc
\* holds estatisticas_globais (eg), resultados_diretorio, the
\* processar_diretorio_tipo calls made (pastas) and the files written
RECURSIVE LoopDataset(_, _, _, _)
LoopDataset(lote_, self, k, acc) ==
  IF k > Len(diretorios_dataset) * Len(tipos_defeitos) THEN acc
  ELSE LET diretorio    == diretorios_dataset[((k - 1) \div Len(tipos_defeitos)) + 1]
           tipo_defeito == tipos_defeitos[((k - 1) % Len(tipos_defeitos)) + 1]
           ultimo       == k % Len(tipos_defeitos) = 0
       IN  Seja(processar_diretorio_tipo(lote_, self, diretorio, tipo_defeito), LAMBDA r :
           Seja(acc.resultados_diretorio \o r.resultados, LAMBDA resultados_diretorio :
             LoopDataset(lote_, self, k + 1,
               [acc EXCEPT
                  !.pastas = Append(@, r),
                  !.escritas = @ \o r.escritas,
                  !.eg.por_tipo_defeito[tipo_defeito] =
                     IF r.resultados # <<>>
                       THEN [imagens |-> @.imagens + Len(r.resultados),
                             objetos |-> @.objetos + SomaObjetos(r.resultados)]
                       ELSE @,
                  !.eg.por_diretorio[diretorio] =
                     IF ultimo /\ resultados_diretorio # <<>>
                       THEN PorDiretorio(@, resultados_diretorio)
                       ELSE @,
                  !.eg.resultados_detalhados =
                     IF ultimo THEN @ \o resultados_diretorio ELSE @,
                  !.resultados_diretorio =
                     IF ultimo THEN <<>> ELSE resultados_diretorio])))

\* the defaultdict entries read as zero counters before their first update
SemContagem == [imagens |-> 0, objetos |-> 0]

\* a ProcessadorDatasetNEU right after __init__
NovoProcessadorDataset(caminho_dataset, salvar_visualizacoes, salvar_imagens_resultado) ==
  [classe |-> "ProcessadorDatasetNEU", chamadas |-> 0,
   caminho_dataset |-> caminho_dataset,
   salvar_visualizacoes |-> salvar_visualizacoes,
   salvar_imagens_resultado |-> salvar_imagens_resultado,
   estatisticas_globais |->
     [total_imagens |-> 0, total_objetos |-> 0,
      por_tipo_defeito |-> [t \in {tipos_defeitos[i] : i \in 1..Len(tipos_defeitos)} |-> SemContagem],
      por_diretorio |-> [d \in {diretorios_dataset[i] : i \in 1..Len(diretorios_dataset)} |-> SemContagem],
      resultados_detalhados |-> <<>>],
   pastas |-> <<>>, escritas |-> <<>>,
   retorno |-> NaoChamado]

\* processar_dataset_completo() on the instance lote_ with its counter self
processar_dataset_completo(lote_, self) ==
  Seja(LoopDataset(lote_, self, 1,
         [eg |-> lote_.estatisticas_globais, resultados_diretorio |-> <<>>,
          pastas |-> <<>>,
          escritas |-> <<Escrita("mkdir", <<"saida">>, 0)>>]), LAMBDA fim :
    [lote_ EXCEPT
       !.chamadas = @ + 1,
       !.estatisticas_globais =
          [fim.eg EXCEPT !.total_imagens = Len(fim.eg.resultados_detalhados),
                         !.total_objetos = SomaObjetos(fim.eg.resultados_detalhados)],
       !.pastas = fim.pastas,
       !.escritas = fim.escritas \o
          <<Escrita("json.dump", <<"resultados_completo.json">>,
                    converter_para_json_serializavel(fim.eg.resultados_detalhados))>>,
       !.retorno = None])

\* processador.processar_dataset_completo()
ProcessarDataset ==
  /\ lote.classe = "ProcessadorDatasetNEU"
  /\ lote.chamadas < MaxChamadasLote
  /\ \E depois \in {processar_dataset_completo(lote, contador)} : lote' = depois
  /\ UNCHANGED <<contador, caminho_imagem, retorno, locais, primeira, etapa, execucoes, programa>>

InitDiretorio ==
  /\ \/ contador \in ConfiguracoesDiretorio /\ lote = NovoProcessadorLote
     \/ /\ contador \in ConfiguracoesDataset
        /\ \E d \in CaminhosDataset, v \in BOOLEAN, i \in BOOLEAN :
             lote = NovoProcessadorDataset(d, v, i)
  /\ caminho_imagem = ""
  /\ retorno = NaoChamado
  /\ locais = SemEtapas
  /\ primeira = NaoChamado
  /\ etapa = NaoChamado
  /\ execucoes = NaoChamado
  /\ programa = NaoChamado

\* processador.processar_diretorio(...)
ProcessarDiretorioCom(args) ==
  /\ lote.classe = "ProcessadorLote"
  /\ lote.chamadas < MaxChamadasLote
  /\ \E depois \in {processar_diretorio(lote, contador, args)} : lote' = depois
  /\ UNCHANGED <<contador, caminho_imagem, retorno, locais, primeira, etapa, execucoes, programa>>

NextDiretorio ==
  \/ \E args \in ArgumentosDiretorio : ProcessarDiretorioCom(args)
  \/ ProcessarDataset

SpecDiretorio == InitDiretorio /\ [][NextDiretorio]_vars

\* the processar calls of a batch that gave a result
Sucessos(processadas) == SelectSeq(processadas, LAMBDA p : p.sucesso)

\* every image found was handed to processar, in the order found, whatever
\* the outcome of the images before it
TodasProcessadas(imagens, processadas) ==
  /\ Len(processadas) = Len(imagens)
  /\ \A k \in 1..Len(imagens) :
       /\ processadas[k].arquivo = imagens[k]
       /\ processadas[k].sucesso = (processar(contador, imagens[k].stem).retorno # None)

\* the list holds one entry per result, in the order of the calls
UmaEntradaPorSucesso(processadas, itens) ==
  /\ Len(itens) = Len(Sucessos(processadas))
  /\ \A j \in 1..Len(itens) :
       /\ itens[j].arquivo = Sucessos(processadas)[j].arquivo
       /\ itens[j].total_objetos =
            processar(contador, itens[j].arquivo.stem).retorno.total_objetos

\* every image file written belongs to an image that gave a result
SemArquivoSemResultado(processadas, escritas) ==
  \A e \in 1..Len(escritas) :
    escritas[e].op \in {"imwrite", "savefig"} =>
      /\ processadas[escritas[e].dados].sucesso
      /\ escritas[e].alvo[Len(escritas[e].alvo)] = processadas[escritas[e].dados].arquivo.stem

RegioesDe(img) == {Fecho({p}, PrimeiroPlano(img)) : p \in PrimeiroPlano(img)}

\* the object's bounding box and area are those of the pixel set r
CorrespondeA(obj, r) ==
  /\ obj.area = Cardinality(r)
  /\ obj.x = MinSet({p[2] : p \in r}) - 1
  /\ obj.y = MinSet({p[1] : p \in r}) - 1
  /\ obj.width = MaxSet({p[2] : p \in r}) - MinSet({p[2] : p \in r}) + 1
  /\ obj.height = MaxSet({p[1] : p \in r}) - MinSet({p[1] : p \in r}) + 1

ObjetosSaoRegioesDe(img) ==
  \E regioes \in {RegioesDe(img)} :
    \A k \in 1..Len(retorno.objetos_detectados) :
      \E r \in regioes : CorrespondeA(retorno.objetos_detectados[k], r)

\* C24 as stated: every detected object's bounding box and area are those
\* of a connected foreground region of the returned imagem_binaria.
C24_ObjetosNaImagemBinaria ==
  EhResultado => ObjetosSaoRegioesDe(retorno.imagem_binaria)

\* C24 amended: the returned imagem_binaria is the output of segmentar_imagem,
\* before the morphological cleanup; every detected object's bounding box
\* and area are those of a connected foreground region of that image after
\* the cleanup (n erosions, n dilations, n dilations, n erosions).
C24_ObjetosNaImagemLimpa ==
  EhResultado =>
    /\ retorno.imagem_binaria =
         segmentar_imagem(contador, preprocessar_imagem(contador, imread(caminho_imagem)))
    /\ \E n \in {contador.morph_iterations} : \E k \in {contador.morph_kernel} :
         ObjetosSaoRegioesDe(
           Erode(Dilate(Dilate(Erode(retorno.imagem_binaria, k, n), k, n), k, n), k, n))

\* objects were found on an image the cleanup changed, and one of them is
\* no region of the returned imagem_binaria
C24_Witness ==
  /\ EhResultado
  /\ retorno.total_objetos >= 1
  /\ locais.img_morph # retorno.imagem_binaria
  /\ ~ObjetosSaoRegioesDe(retorno.imagem_binaria)

\* the other copy of the class, constructed with the same arguments
NoOutroModulo(self) ==
  [self EXCEPT !.modulo = CHOOSE m \in Modulos : m # self.modulo]

\* two numbers of either kind with the same value
MesmoValor(a, b) == a.raiz = b.raiz /\ a.num * b.den = b.num * a.den

\* C25: for the same configuration and the same input, contador_objetos.py
\* and src/core/contador.py both return None or both return a result, with
\* the same total_objetos, the same objetos_detectados and statistics of
\* equal value.
C25_ModulosEquivalentes ==
  retorno # NaoChamado =>
    \E outro \in {processar(NoOutroModulo(contador), caminho_imagem).retorno} :
      /\ (retorno = None) <=> (outro = None)
      /\ EhResultado =>
           /\ outro.tipo = "ResultadoContagem"
           /\ outro.total_objetos = retorno.total_objetos
           /\ outro.objetos_detectados = retorno.objetos_detectados
           /\ \A f \in {"total", "area_media", "area_mediana", "area_min", "area_max",
                        "desvio_padrao"} :
                MesmoValor(outro.estatisticas[f], retorno.estatisticas[f])

\* objects of different areas, whose mean is no whole number, counted by the
\* copy that stores NumPy scalars
C25_Witness ==
  /\ EhResultado
  /\ retorno.total_objetos >= 2
  /\ retorno.estatisticas.area_media.tipo = "numpy.float64"
  /\ retorno.estatisticas.area_media.num % retorno.estatisticas.area_media.den # 0
  /\ retorno.estatisticas.area_min # retorno.estatisticas.area_max

\* C26: whenever processar_diretorio has returned a list, self.resultados is
\* that list, whichever return statement was taken.
C26_ResultadosDaUltimaChamada ==
  (lote.classe = "ProcessadorLote" /\ lote.retorno.tipo = "list") =>
    lote.resultados = lote.retorno.itens

\* the sum of one counter over the keys of a dictionary of counters
RECURSIVE SomaContagens(_, _, _)
SomaContagens(dicionario, chaves, campo) ==
  IF chaves = {} THEN 0
  ELSE LET c == CHOOSE c \in chaves : TRUE
       IN  dicionario[c][campo] + SomaContagens(dicionario, chaves \ {c}, campo)

\* C27: after every completed processar_dataset_completo, first or repeated,
\* total_imagens is the number of resultados_detalhados and the sum of the
\* 'imagens' counters over the defect types and over the directories, and
\* total_objetos is the sum of the 'objetos' counters over both.
C27_AgregadosConsistentes ==
  (lote.classe = "ProcessadorDatasetNEU" /\ lote.chamadas > 0) =>
    LET eg == lote.estatisticas_globais
    IN  /\ eg.total_imagens = Len(eg.resultados_detalhados)
        /\ eg.total_imagens =
             SomaContagens(eg.por_tipo_defeito, DOMAIN eg.por_tipo_defeito, "imagens")
        /\ eg.total_imagens =
             SomaContagens(eg.por_diretorio, DOMAIN eg.por_diretorio, "imagens")
        /\ eg.total_objetos = SomaObjetos(eg.resultados_detalhados)
        /\ eg.total_objetos =
             SomaContagens(eg.por_tipo_defeito, DOMAIN eg.por_tipo_defeito, "objetos")
        /\ eg.total_objetos =
             SomaContagens(eg.por_diretorio, DOMAIN eg.por_diretorio, "objetos")

\* C28: in one processar_diretorio call, whatever the extension list, no
\* file of the input directory is handed to processar twice and none has two
\* entries in the results.
C28_CadaArquivoUmaVez ==
  (lote.classe = "ProcessadorLote" /\ lote.chamadas > 0) =>
    /\ \A k \in 1..Len(lote.processadas) : \A m \in 1..Len(lote.processadas) :
         k # m => lote.processadas[k].arquivo # lote.processadas[m].arquivo
    /\ lote.retorno.tipo = "list" =>
         \A k \in 1..Len(lote.retorno.itens) : \A m \in 1..Len(lote.retorno.itens) :
           k # m => lote.retorno.itens[k].arquivo # lote.retorno.itens[m].arquivo

\* ------------------------------------------------------------------------
\* main in single-image mode (-i): the statements that touch the output
\* directory args.saida, one step each.  diretorio_existe tells whether
\* args.saida exists on the disk; operacoes lists the file operations made
\* on it, each with the state of the directory at that time.
\* ------------------------------------------------------------------------
\* the counters main builds: area_minima, kernel size, iterations and method
\* come from the command line, the smoothing kernel is the default
ConfiguracoesPrincipal ==
  {c \in Configuracoes :
     /\ c.blur_kernel = <<5, 5>>
     /\ c.area_minima \in {0, MaxAreaMinima}
     /\ c.morph_iterations = MaxIteracoes}

\* -i, --salvar and --sem-visualizacao
ArgumentosPrincipal ==
  [imagem           : {"tres", "bloco", "corrompida", "ausente"},
   salvar           : BOOLEAN,
   sem_visualizacao : BOOLEAN]

InitPrincipal ==
  /\ contador \in ConfiguracoesPrincipal
  /\ \E args \in ArgumentosPrincipal, existe \in BOOLEAN :
       programa = [pc |-> "inicio", args |-> args, diretorio_existe |-> existe,
                   operacoes |-> <<>>, saida |-> "nenhuma"]
  /\ caminho_imagem = ""
  /\ retorno = NaoChamado
  /\ locais = SemEtapas
  /\ primeira = NaoChamado
  /\ lote = NaoChamado
  /\ etapa = NaoChamado
  /\ execucoes = NaoChamado

Terminar(saida) == programa' = [programa EXCEPT !.pc = "fim", !.saida = saida]

\* a file operation on args.saida, logged with the state of the directory
Operacao(op, arquivo) ==
  [op |-> op, arquivo |-> arquivo, diretorio_existia |-> programa.diretorio_existe]

\* the path check, resultado = contador.processar(...) and "if resultado:"
ProcessarImagem ==
  /\ programa.pc = "inicio"
  /\ IF programa.args.imagem \notin DOMAIN Disco
       THEN /\ Terminar("sys.exit(1)")
            /\ UNCHANGED <<contador, caminho_imagem, retorno, locais>>
       ELSE /\ Chamada(programa.args.imagem)
            /\ IF retorno' = None
                 THEN Terminar("sys.exit(1)")
                 ELSE programa' = [programa EXCEPT !.pc = "visualizar"]
  /\ UNCHANGED <<primeira, lote, etapa, execucoes>>

\* "if not args.sem_visualizacao: VisualizadorResultados.visualizar(...)":
\* with --salvar the figure is saved into args.saida by plt.savefig, which
\* raises FileNotFoundError when the directory does not exist
Visualizar ==
  /\ programa.pc = "visualizar"
  /\ programa' =
       IF programa.args.sem_visualizacao \/ ~programa.args.salvar
         THEN [programa EXCEPT !.pc = "salvar"]
       ELSE IF programa.diretorio_existe
         THEN [programa EXCEPT
                 !.pc = "salvar",
                 !.operacoes = Append(@, Operacao("savefig", "visualizacao.png"))]
         ELSE [programa EXCEPT
                 !.pc = "fim", !.saida = "FileNotFoundError",
                 !.operacoes = Append(@, Operacao("savefig", "visualizacao.png"))]
  /\ UNCHANGED <<contador, caminho_imagem, retorno, locais, primeira, lote, etapa, execucoes>>

\* "if args.salvar:" Path(args.saida).mkdir(parents=True, exist_ok=True)
CriarDiretorio ==
  /\ programa.pc = "salvar"
  /\ programa' =
       IF programa.args.salvar
         THEN [programa EXCEPT !.pc = "gravar", !.diretorio_existe = TRUE,
                               !.operacoes = Append(@, Operacao("mkdir", "saida"))]
         ELSE [programa EXCEPT !.pc = "fim", !.saida = "0"]
  /\ UNCHANGED <<contador, caminho_imagem, retorno, locais, primeira, lote, etapa, execucoes>>

\* cv2.imwrite(str(caminho_resultado), resultado.imagem_resultado)
GravarResultado ==
  /\ programa.pc = "gravar"
  /\ programa' = [programa EXCEPT !.pc = "fim", !.saida = "0",
                                  !.operacoes = Append(@, Operacao("imwrite", "resultado.jpg"))]
  /\ UNCHANGED <<contador, caminho_imagem, retorno, locais, primeira, lote, etapa, execucoes>>

NextPrincipal == ProcessarImagem \/ Visualizar \/ CriarDiretorio \/ GravarResultado

SpecPrincipal == InitPrincipal /\ [][NextPrincipal]_vars

\* C29: in single-image mode every file main writes into the output
\* directory (the visualization, the annotated image) is written when the
\* directory exists already.
C29_DiretorioAntesDosArquivos ==
  \A k \in 1..Len(programa.operacoes) :
    programa.operacoes[k].op \in {"savefig", "imwrite"} =>
      programa.operacoes[k].diretorio_existia

\* the writes of resultados_lote.json among the file operations of a call
EscritasJson(escritas) ==
  SelectSeq(escritas, LAMBDA e : e.alvo = <<"resultados_lote.json">>)

\* C30: processar_diretorio writes resultados_lote.json exactly when
\* salvar_resultados is true, an output directory is given, the input
\* directory exists and a matching image was found; then it is written
\* once, as the last file operation of the call, and holds the list the
\* call returns.
C30_JsonQuandoPedido ==
  (lote.classe = "ProcessadorLote" /\ lote.chamadas > 0) =>
    LET pedido == /\ lote.args.salvar_resultados
                  /\ lote.args.diretorio_saida # None
                  /\ PastasDeEntrada[lote.args.diretorio_entrada].existe
                  /\ lote.imagens # <<>>
        json   == EscritasJson(lote.escritas)
    IN  /\ (json # <<>>) <=> pedido
        /\ pedido =>
             /\ Len(json) = 1
             /\ lote.escritas[Len(lote.escritas)] = json[1]
             /\ Len(lote.processadas) = Len(lote.imagens)
             /\ json[1].op = "json.dump"
             /\ lote.retorno.tipo = "list"
             /\ json[1].dados = lote.retorno.itens

====
